---- MODULE Spec2Model ----
(***************************************************************************)
(* A model of the Figma-to-markup conversion engine of                     *)
(* ronasit-figma-export (src/src/markup.js): the class-name sanitizer, the *)
(* markup emitter, the style resolver and the stylesheet assembly.         *)
(* Strings are TLA+ strings; numbers are fixed-point thousandths (the      *)
(* JavaScript number v is held as the integer v * 1000), so that           *)
(* fractional opacities, colour channels and half pixels exist.            *)
(***************************************************************************)
EXTENDS Integers, Sequences, FiniteSets, TLC

VARIABLES
  pc,                 \* "idle", "ready" (a conversion was invoked), "done" or
                      \* "error" (the conversion raised)
  variableIds,        \* the entries of variableIds.json
  argDocument,        \* the whole document handed to the conversion
  argNode,            \* the node to convert
  argRootClass,       \* the root class name asked for, "" for none
  classMap,           \* the class registry of the conversion
  jsx,                \* the markup returned
  scss,               \* the stylesheet returned
  resolved,           \* the style resolutions behind the stylesheet
  runs,               \* the arguments and results of the calls that returned
  sName,              \* the name given to the sanitizer
  sOnce,              \* sanitize(sName)
  sTwice,             \* sanitize(sanitize(sName))
  sPc,                \* how far the sanitizer has been applied
  aPc,                \* the step a run of the all command is at
  remote,             \* the version of the document the Figma API returns
  rawFile,            \* figmaFileContent.v8: 0 absent, -1 unreadable, else the
                      \* version of the document it holds
  jsonFile,           \* figmaFileContent.json, likewise
  fetched,            \* the version the content step of this run fetched
  used                \* the versions the later steps of this run worked on

cvars == <<pc, variableIds, argDocument, argNode, argRootClass, classMap, jsx,
           scss, resolved>>

hvars == <<runs>>

svars == <<sName, sOnce, sTwice, sPc>>

avars == <<aPc, remote, rawFile, jsonFile, fetched, used>>

vars == <<cvars, hvars, svars, avars>>

(***************************************************************************)
(* Bounds of the model.                                                    *)
(***************************************************************************)
MaxNameLen == 4

MaxShift == 1

MaxRuns == 3

\* the versions the remote document goes through
MaxVersion == 3

(***************************************************************************)
(* String helpers: the JavaScript string operations the code relies on.    *)
(***************************************************************************)
CharAt(s, i) == SubSeq(s, i, i)

CharsOf(s) == {CharAt(s, i) : i \in 1..Len(s)}

LowerLetters == "abcdefghijklmnopqrstuvwxyz"

UpperLetters == "ABCDEFGHIJKLMNOPQRSTUVWXYZ"

Digits == "0123456789"

\* String.prototype.startsWith
StartsWith(s, p) == Len(p) <= Len(s) /\ SubSeq(s, 1, Len(p)) = p

\* s.slice(i) with a 0-based start index i
SliceFrom(s, i) == IF i >= Len(s) THEN "" ELSE SubSeq(s, i + 1, Len(s))

\* the 1-based positions at which p occurs in s
Occurrences(s, p) ==
  {i \in 1..(Len(s) - Len(p) + 1) : SubSeq(s, i, i + Len(p) - 1) = p}

\* String.prototype.includes
Includes(s, p) == Len(p) = 0 \/ Occurrences(s, p) # {}

Min(S) == CHOOSE m \in S : \A k \in S : m <= k

\* the upper-case or lower-case counterpart of one ASCII character
LowerChar(c) ==
  IF c \in CharsOf(UpperLetters)
    THEN CharAt(LowerLetters, CHOOSE i \in 1..26 : CharAt(UpperLetters, i) = c)
    ELSE c

UpperChar(c) ==
  IF c \in CharsOf(LowerLetters)
    THEN CharAt(UpperLetters, CHOOSE i \in 1..26 : CharAt(LowerLetters, i) = c)
    ELSE c

RECURSIVE toLowerCase(_)
toLowerCase(s) ==
  IF s = "" THEN "" ELSE LowerChar(CharAt(s, 1)) \o toLowerCase(SliceFrom(s, 1))

(***************************************************************************)
(* sanitize: lower-case, then every maximal run of characters outside      *)
(* [a-z0-9_-] becomes one "_" (the regular expression /[^a-z0-9_-]+/g).    *)
(***************************************************************************)
ClassChars == CharsOf(LowerLetters) \cup CharsOf(Digits) \cup {"_", "-"}

\* s.replace(/[^a-z0-9_-]+/g, '_'); inRun: the previous character was
\* part of the run being replaced
RECURSIVE ReplaceRuns(_, _)
ReplaceRuns(s, inRun) ==
  IF s = "" THEN ""
  ELSE IF CharAt(s, 1) \in ClassChars
    THEN CharAt(s, 1) \o ReplaceRuns(SliceFrom(s, 1), FALSE)
    ELSE (IF inRun THEN "" ELSE "_") \o ReplaceRuns(SliceFrom(s, 1), TRUE)

\* s.replace('__', '_'): the first occurrence only
ReplaceFirst(s, p, r) ==
  IF Occurrences(s, p) = {} THEN s
  ELSE LET i == Min(Occurrences(s, p))
       IN  SubSeq(s, 1, i - 1) \o r \o SliceFrom(s, i + Len(p) - 1)

\* a sanitizer that tries to collapse doubled separators with a
\* non-global replace
sanitizeCollapseOnce(name) ==
  ReplaceFirst(ReplaceRuns(toLowerCase(name), FALSE), "__", "_")

\* a sanitizer whose character class also admits upper-case letters and
\* that does not lower-case
RECURSIVE ReplaceRunsKeepCase(_, _)
ReplaceRunsKeepCase(s, inRun) ==
  IF s = "" THEN ""
  ELSE IF CharAt(s, 1) \in ClassChars \cup CharsOf(UpperLetters)
    THEN CharAt(s, 1) \o ReplaceRunsKeepCase(SliceFrom(s, 1), FALSE)
    ELSE (IF inRun THEN "" ELSE "_") \o ReplaceRunsKeepCase(SliceFrom(s, 1), TRUE)

sanitizeKeepCase(name) == ReplaceRunsKeepCase(name, FALSE)

sanitize(name) == ReplaceRuns(toLowerCase(name), FALSE)

(***************************************************************************)
(* Formatting helpers.                                                     *)
(***************************************************************************)
Has(r, f) == f \in DOMAIN r

Abs(v) == IF v < 0 THEN -v ELSE v

\* Number.isInteger on a fixed-point value
IsInteger(v) == v % 1000 = 0

Pad3(n) == IF n < 10 THEN "00" \o ToString(n)
           ELSE IF n < 100 THEN "0" \o ToString(n) ELSE ToString(n)

\* val.toFixed(3)
toFixed3(v) ==
  (IF v < 0 THEN "-" ELSE "") \o ToString(Abs(v) \div 1000) \o "." \o Pad3(Abs(v) % 1000)

\* formatNum with two decimals, as the palette export renders alpha
formatNumTwoDecimals(v) ==
  IF IsInteger(v) THEN ToString(v \div 1000)
  ELSE (IF v < 0 THEN "-" ELSE "") \o ToString(Abs(v) \div 1000) \o "."
       \o SubSeq(Pad3(Abs(v) % 1000), 1, 2)

\* integers as they are, other numbers with three decimals
formatNum(v) == IF IsInteger(v) THEN ToString(v \div 1000) ELSE toFixed3(v)

\* Math.round(channel * 255) of a channel held in thousandths
Round255(ch) == (ch * 255 + 500) \div 1000

HexDigits == "0123456789abcdef"

RECURSIVE ToHex(_)
ToHex(n) ==
  IF n < 16 THEN CharAt(HexDigits, n + 1)
  ELSE ToHex(n \div 16) \o CharAt(HexDigits, (n % 16) + 1)

\* colorToCss, with the opacity already defaulted to 1 when undefined
colorToCss(c, a) ==
  IF a < 1000
    THEN "rgba(" \o ToString(Round255(c.r)) \o ", " \o ToString(Round255(c.g)) \o ", "
         \o ToString(Round255(c.b)) \o ", " \o formatNum(a) \o ")"
    ELSE "#" \o SliceFrom(ToHex(16777216 + Round255(c.r) * 65536 + Round255(c.g) * 256
                                + Round255(c.b)), 1)

\* opacity !== undefined ? opacity : 1
OpacityOf(r, f) == IF Has(r, f) THEN r[f] ELSE 1000

IsAlnum(c) == c \in CharsOf(LowerLetters) \cup CharsOf(UpperLetters) \cup CharsOf(Digits)

\* toPascalCase: the words between runs of non-alphanumerics, each with its
\* first character upper-cased, joined; startWord: the next alphanumeric
\* character begins a word
RECURSIVE PascalFrom(_, _)
PascalFrom(s, startWord) ==
  IF s = "" THEN ""
  ELSE IF IsAlnum(CharAt(s, 1))
    THEN (IF startWord THEN UpperChar(CharAt(s, 1)) ELSE CharAt(s, 1))
         \o PascalFrom(SliceFrom(s, 1), FALSE)
    ELSE PascalFrom(SliceFrom(s, 1), TRUE)

toPascalCase(str) == PascalFrom(str, TRUE)

getTag(node) ==
  IF node.type = "TEXT" THEN "span" ELSE IF node.type = "IMAGE" THEN "img" ELSE "div"

RECURSIVE Repeat(_, _)
Repeat(s, n) == IF n <= 0 THEN "" ELSE s \o Repeat(s, n - 1)

RECURSIVE Join(_, _)
Join(parts, sep) ==
  IF parts = <<>> THEN ""
  ELSE IF Len(parts) = 1 THEN parts[1]
  ELSE parts[1] \o sep \o Join(Tail(parts), sep)

IsSpace(c) == c \in {" ", "\n", "\t", "\r"}

RECURSIVE TrimLeft(_)
TrimLeft(s) == IF s # "" /\ IsSpace(CharAt(s, 1)) THEN TrimLeft(SliceFrom(s, 1)) ELSE s

RECURSIVE TrimRight(_)
TrimRight(s) ==
  IF s # "" /\ IsSpace(CharAt(s, Len(s))) THEN TrimRight(SubSeq(s, 1, Len(s) - 1)) ELSE s

Trim(s) == TrimRight(TrimLeft(s))

(***************************************************************************)
(* The style resolver, nodeToScss.  A node is a record holding exactly the *)
(* attributes that are present; an absent attribute is undefined.  A bound *)
(* variable entry is [array |-> whether the JSON value is an array,        *)
(* items |-> its references (one, for a single reference)].  The           *)
(* identifier map is the sequence of [name, id] entries of                 *)
(* variableIds.json in Object.entries order.                               *)
(***************************************************************************)
\* a lookup that turns an id without a name into a reference to the id
getScssVarByIdOrId(variableIdMap, id) ==
  LET hits == {i \in 1..Len(variableIdMap) : variableIdMap[i].id = id}
  IN  IF hits # {} THEN "var(--" \o variableIdMap[Min(hits)].name \o ")"
      ELSE IF id = "" THEN ""
      ELSE "var(--" \o id \o ")"

\* getScssVarById: the first name mapped to the id; "" stands for null
RECURSIVE getScssVarById(_, _)
getScssVarById(variableIdMap, id) ==
  IF variableIdMap = <<>> THEN ""
  ELSE IF variableIdMap[1].id = id THEN "var(--" \o variableIdMap[1].name \o ")"
  ELSE getScssVarById(Tail(variableIdMap), id)

\* ref?.id, with "" for undefined
IdOf(items, i) == IF i <= Len(items) /\ Has(items[i], "id") THEN items[i].id ELSE ""

\* Array.isArray(b) ? b[0]?.id : b.id
FirstOrOwnId(b) == IdOf(b.items, 1)

\* Array.isArray(b) && b[0]?.id
FirstIdOfArray(b) == IF b.array THEN IdOf(b.items, 1) ELSE ""

\* the variable of a text attribute: a single reference or the first of an array
BoundVarOf(node, attr, variableIdMap) ==
  IF Has(node, "boundVariables") /\ Has(node.boundVariables, attr)
     /\ FirstOrOwnId(node.boundVariables[attr]) # ""
    THEN getScssVarById(variableIdMap, FirstOrOwnId(node.boundVariables[attr]))
    ELSE ""

\* the variable of a background or border: the first of an array only
BoundVarOfArray(node, attr, variableIdMap) ==
  IF Has(node, "boundVariables") /\ Has(node.boundVariables, attr)
     /\ FirstIdOfArray(node.boundVariables[attr]) # ""
    THEN getScssVarById(variableIdMap, FirstIdOfArray(node.boundVariables[attr]))
    ELSE ""

Px(v) == formatNum(v) \o "px;"

\* getPositionProps measuring a RIGHT or BOTTOM offset from the parent's
\* near edge
getPositionPropsNearEdge(box, parentBox, constraints) ==
  << IF Has(constraints, "horizontal") /\ constraints.horizontal = "RIGHT"
       THEN "right: " \o Px(box.x - parentBox.x)
     ELSE IF Has(constraints, "horizontal") /\ constraints.horizontal = "CENTER"
       THEN "left: " \o Px((parentBox.width - box.width) \div 2)
     ELSE "left: " \o Px(box.x - parentBox.x),
     IF Has(constraints, "vertical") /\ constraints.vertical = "BOTTOM"
       THEN "bottom: " \o Px(box.y - parentBox.y)
     ELSE IF Has(constraints, "vertical") /\ constraints.vertical = "CENTER"
       THEN "top: " \o Px((parentBox.height - box.height) \div 2)
     ELSE "top: " \o Px(box.y - parentBox.y) >>

getPositionProps(box, parentBox, constraints) ==
  << IF Has(constraints, "horizontal") /\ constraints.horizontal = "RIGHT"
       THEN "right: " \o Px(parentBox.x + parentBox.width - (box.x + box.width))
     ELSE IF Has(constraints, "horizontal") /\ constraints.horizontal = "CENTER"
       THEN "left: " \o Px((parentBox.width - box.width) \div 2)
     ELSE "left: " \o Px(box.x - parentBox.x),
     IF Has(constraints, "vertical") /\ constraints.vertical = "BOTTOM"
       THEN "bottom: " \o Px(parentBox.y + parentBox.height - (box.y + box.height))
     ELSE IF Has(constraints, "vertical") /\ constraints.vertical = "CENTER"
       THEN "top: " \o Px((parentBox.height - box.height) \div 2)
     ELSE "top: " \o Px(box.y - parentBox.y) >>

HasBoxNumber(node, f) ==
  Has(node, "absoluteBoundingBox") /\ Has(node.absoluteBoundingBox, f)

Sizing(node, f) == IF Has(node, f) THEN node[f] ELSE ""

WidthProp(node) == "width: " \o Px(node.absoluteBoundingBox.width)

HeightProp(node) == "height: " \o Px(node.absoluteBoundingBox.height)

\* a sizing that treats every auto-layout parent as a horizontal one
getLayoutSizingPropsUnswapped(node, parentLayoutMode) ==
  LET fixedW == Sizing(node, "layoutSizingHorizontal") = "FIXED" /\ HasBoxNumber(node, "width")
      fixedH == Sizing(node, "layoutSizingVertical") = "FIXED" /\ HasBoxNumber(node, "height")
      fillW  == Sizing(node, "layoutSizingHorizontal") = "FILL"
      fillH  == Sizing(node, "layoutSizingVertical") = "FILL"
  IN  IF parentLayoutMode \in {"HORIZONTAL", "VERTICAL"}
        THEN (IF fixedW THEN <<WidthProp(node)>>
              ELSE IF fillW THEN <<"flex-grow: 1; flex-shrink: 1;">> ELSE <<>>)
             \o (IF fixedH THEN <<HeightProp(node)>>
                 ELSE IF fillH THEN <<"align-self: stretch;">> ELSE <<>>)
      ELSE (IF fixedW THEN <<WidthProp(node)>> ELSE <<>>)
           \o (IF fixedH THEN <<HeightProp(node)>> ELSE <<>>)

\* parentLayoutMode: "" stands for null
getLayoutSizingProps(node, parentLayoutMode) ==
  LET fixedW == Sizing(node, "layoutSizingHorizontal") = "FIXED" /\ HasBoxNumber(node, "width")
      fixedH == Sizing(node, "layoutSizingVertical") = "FIXED" /\ HasBoxNumber(node, "height")
      fillW  == Sizing(node, "layoutSizingHorizontal") = "FILL"
      fillH  == Sizing(node, "layoutSizingVertical") = "FILL"
  IN  IF parentLayoutMode = "HORIZONTAL"
        THEN (IF fixedW THEN <<WidthProp(node)>>
              ELSE IF fillW THEN <<"flex-grow: 1; flex-shrink: 1;">> ELSE <<>>)
             \o (IF fixedH THEN <<HeightProp(node)>>
                 ELSE IF fillH THEN <<"align-self: stretch;">> ELSE <<>>)
      ELSE IF parentLayoutMode = "VERTICAL"
        THEN (IF fixedH THEN <<HeightProp(node)>>
              ELSE IF fillH THEN <<"flex-grow: 1; flex-shrink: 1;">> ELSE <<>>)
             \o (IF fixedW THEN <<WidthProp(node)>>
                 ELSE IF fillW THEN <<"align-self: stretch;">> ELSE <<>>)
      ELSE (IF fixedW THEN <<WidthProp(node)>> ELSE <<>>)
           \o (IF fixedH THEN <<HeightProp(node)>> ELSE <<>>)

IsNull(n) == ~Has(n, "id")

NullNode == [null |-> TRUE]

IsPositioned(node) ==
  (Has(node, "isFixed") /\ node.isFixed)
  \/ (Has(node, "layoutPositioning") /\ node.layoutPositioning = "ABSOLUTE")

\* a resolver that tests isFixed and layoutPositioning one after the other
PositioningPropsBoth(node, parentNode) ==
  (IF Has(node, "isFixed") /\ node.isFixed THEN <<"position: fixed;">> ELSE <<>>)
  \o (IF Has(node, "layoutPositioning") /\ node.layoutPositioning = "ABSOLUTE"
        THEN <<"position: absolute;">> ELSE <<>>)
  \o (IF IsPositioned(node) /\ Has(node, "absoluteBoundingBox")
         /\ ~IsNull(parentNode) /\ Has(parentNode, "absoluteBoundingBox")
        THEN getPositionProps(node.absoluteBoundingBox, parentNode.absoluteBoundingBox,
                              IF Has(node, "constraints") THEN node.constraints
                              ELSE [none |-> TRUE])
        ELSE <<>>)

\* lines 331-344
PositioningProps(node, parentNode) ==
  (IF Has(node, "isFixed") /\ node.isFixed THEN <<"position: fixed;">>
   ELSE IF Has(node, "layoutPositioning") /\ node.layoutPositioning = "ABSOLUTE"
     THEN <<"position: absolute;">> ELSE <<>>)
  \o (IF IsPositioned(node) /\ Has(node, "absoluteBoundingBox")
         /\ ~IsNull(parentNode) /\ Has(parentNode, "absoluteBoundingBox")
        THEN getPositionProps(node.absoluteBoundingBox, parentNode.absoluteBoundingBox,
                              IF Has(node, "constraints") THEN node.constraints
                              ELSE [none |-> TRUE])
        ELSE <<>>)

\* node.fills[0] exists and is marked not visible
FirstFillHidden(node) ==
  /\ Has(node, "fills")
  /\ Len(node.fills) > 0
  /\ Has(node.fills[1], "visible")
  /\ node.fills[1].visible = FALSE

\* node[attr][0] exists and has a color
FirstHasColor(node, attr) ==
  Has(node, attr) /\ Len(node[attr]) > 0 /\ Has(node[attr][1], "color")

LiteralColor(node, attr) ==
  colorToCss(node[attr][1].color, OpacityOf(node[attr][1], "opacity"))

\* a variable-first declaration: the variable when it resolves, else the
\* literal when there is one
VarFirst(prop, var, hasLiteral, literal) ==
  IF var # "" THEN <<prop \o ": " \o var \o ";">>
  ELSE IF hasLiteral THEN <<prop \o ": " \o literal \o ";">>
  ELSE <<>>

StyleOf(node) == IF Has(node, "style") THEN node.style ELSE [none |-> TRUE]

\* text declarations that take the colour of a hidden first fill too
TextPropsOfHiddenFill(node, variableIdMap) ==
  LET style == StyleOf(node)
      align == IF Has(style, "textAlignHorizontal")
                 THEN toLowerCase(style.textAlignHorizontal) ELSE ""
  IN  VarFirst("color", BoundVarOf(node, "fills", variableIdMap),
               FirstHasColor(node, "fills"),
               IF FirstHasColor(node, "fills") THEN LiteralColor(node, "fills") ELSE "")
      \o VarFirst("font-weight", BoundVarOf(node, "fontStyle", variableIdMap),
                  Has(style, "fontStyle"),
                  IF Has(style, "fontStyle") THEN style.fontStyle ELSE "")
      \o VarFirst("font-family", BoundVarOf(node, "fontFamily", variableIdMap),
                  Has(style, "fontFamily"),
                  IF Has(style, "fontFamily") THEN style.fontFamily ELSE "")
      \o VarFirst("font-size", BoundVarOf(node, "fontSize", variableIdMap),
                  Has(style, "fontSize"),
                  IF Has(style, "fontSize") THEN formatNum(style.fontSize) \o "px" ELSE "")
      \o (IF align \in {"left", "right", "center", "justify"}
            THEN <<"text-align: " \o align \o ";">> ELSE <<>>)
      \o (IF Has(style, "letterSpacing")
            THEN <<"letter-spacing: " \o Px(style.letterSpacing)>> ELSE <<>>)
      \o (IF Has(style, "lineHeightPercentFontSize")
            THEN <<"line-height: " \o formatNum(style.lineHeightPercentFontSize) \o "%;">>
            ELSE <<>>)

\* lines 354-441
TextProps(node, variableIdMap) ==
  LET style == StyleOf(node)
      align == IF Has(style, "textAlignHorizontal")
                 THEN toLowerCase(style.textAlignHorizontal) ELSE ""
  IN  (IF FirstFillHidden(node) THEN <<>>
       ELSE VarFirst("color", BoundVarOf(node, "fills", variableIdMap),
                     FirstHasColor(node, "fills"),
                     IF FirstHasColor(node, "fills") THEN LiteralColor(node, "fills") ELSE ""))
      \o VarFirst("font-weight", BoundVarOf(node, "fontStyle", variableIdMap),
                  Has(style, "fontStyle"),
                  IF Has(style, "fontStyle") THEN style.fontStyle ELSE "")
      \o VarFirst("font-family", BoundVarOf(node, "fontFamily", variableIdMap),
                  Has(style, "fontFamily"),
                  IF Has(style, "fontFamily") THEN style.fontFamily ELSE "")
      \o VarFirst("font-size", BoundVarOf(node, "fontSize", variableIdMap),
                  Has(style, "fontSize"),
                  IF Has(style, "fontSize") THEN formatNum(style.fontSize) \o "px" ELSE "")
      \o (IF align \in {"left", "right", "center", "justify"}
            THEN <<"text-align: " \o align \o ";">> ELSE <<>>)
      \o (IF Has(style, "letterSpacing")
            THEN <<"letter-spacing: " \o Px(style.letterSpacing)>> ELSE <<>>)
      \o (IF Has(style, "lineHeightPercentFontSize")
            THEN <<"line-height: " \o formatNum(style.lineHeightPercentFontSize) \o "%;">>
            ELSE <<>>)

\* node.fills.find((f) => f.type === 'IMAGE')
RECURSIVE FindImageFill(_)
FindImageFill(fills) ==
  IF fills = <<>> THEN <<>>
  ELSE IF Has(fills[1], "type") /\ fills[1].type = "IMAGE" THEN <<fills[1]>>
  ELSE FindImageFill(Tail(fills))

ScaleModeProps(fill) ==
  LET mode == IF Has(fill, "scaleMode") THEN fill.scaleMode ELSE ""
  IN  IF mode = "FILL" THEN <<"background-size: cover;">>
      ELSE IF mode = "FIT" THEN <<"background-size: contain;">>
      ELSE IF mode = "TILE" THEN <<"background-repeat: repeat;">>
      ELSE IF mode = "CROP" THEN <<"background-size: cover;", "background-position: center;">>
      ELSE <<>>

\* lines 443-482
BackgroundProps(node, variableIdMap) ==
  IF FirstFillHidden(node) \/ node.type = "TEXT" THEN <<>>
  ELSE (IF Has(node, "fills") /\ FindImageFill(node.fills) # <<>>
          THEN <<"background: url(/img/image.png);">>
               \o ScaleModeProps(FindImageFill(node.fills)[1])
          ELSE <<>>)
       \o VarFirst("background", BoundVarOfArray(node, "fills", variableIdMap),
                   FirstHasColor(node, "fills"),
                   IF FirstHasColor(node, "fills") THEN LiteralColor(node, "fills") ELSE "")

\* lines 483-507
OpacityRadiusBorderProps(node, variableIdMap) ==
  (IF Has(node, "opacity") THEN <<"opacity: " \o formatNum(node.opacity) \o ";">> ELSE <<>>)
  \o (IF Has(node, "cornerRadius")
        THEN <<"border-radius: " \o Px(node.cornerRadius)>> ELSE <<>>)
  \o VarFirst("border", IF BoundVarOfArray(node, "strokes", variableIdMap) # ""
                          THEN "1px solid " \o BoundVarOfArray(node, "strokes", variableIdMap)
                          ELSE "",
              FirstHasColor(node, "strokes"),
              IF FirstHasColor(node, "strokes")
                THEN "1px solid " \o LiteralColor(node, "strokes") ELSE "")

IsAlias(ref) == Has(ref, "type") /\ ref.type = "VARIABLE_ALIAS" /\ Has(ref, "id") /\ ref.id # ""

\* effectVars.find((v) => v.type === 'VARIABLE_ALIAS' && v.id)
RECURSIVE FindAliasId(_)
FindAliasId(items) ==
  IF items = <<>> THEN ""
  ELSE IF IsAlias(items[1]) THEN items[1].id
  ELSE FindAliasId(Tail(items))

\* lines 512-525; "" stands for null
ShadowVarId(node) ==
  IF Has(node, "boundVariables") /\ Has(node.boundVariables, "effects")
    THEN FindAliasId(node.boundVariables.effects.items)
    ELSE ""

\* lines 527-534 and 538-544; "" stands for null
ShadowColor(e, shadowVarId, variableIdMap) ==
  LET var == IF shadowVarId # "" THEN getScssVarById(variableIdMap, shadowVarId) ELSE ""
  IN  IF var # "" THEN var
      ELSE IF Has(e, "color") THEN colorToCss(e.color, OpacityOf(e.color, "a"))
      ELSE ""

ShadowNum(e, f) == IF Has(e, f) THEN formatNum(e[f]) ELSE "0"

ShadowOffset(e, f) ==
  IF Has(e, "offset") /\ Has(e.offset, f) THEN formatNum(e.offset[f]) ELSE "0"

\* lines 537-550
ShadowStr(e, shadowVarId, variableIdMap) ==
  ReplaceFirst(ShadowOffset(e, "x") \o "px " \o ShadowOffset(e, "y") \o "px "
               \o ShadowNum(e, "radius") \o "px " \o ShadowNum(e, "spread") \o "px "
               \o ShadowColor(e, shadowVarId, variableIdMap),
               " 0px", "")

IsValidShadow(e, shadowVarId, variableIdMap) ==
  /\ Has(e, "type") /\ e.type = "DROP_SHADOW"
  /\ ~(Has(e, "visible") /\ e.visible = FALSE)
  /\ ShadowColor(e, shadowVarId, variableIdMap) # ""

RECURSIVE ShadowStrs(_, _, _)
ShadowStrs(effects, shadowVarId, variableIdMap) ==
  IF effects = <<>> THEN <<>>
  ELSE (IF IsValidShadow(effects[1], shadowVarId, variableIdMap)
          THEN <<ShadowStr(effects[1], shadowVarId, variableIdMap)>> ELSE <<>>)
       \o ShadowStrs(Tail(effects), shadowVarId, variableIdMap)

\* lines 508-553
ShadowProps(node, variableIdMap) ==
  IF Has(node, "effects") /\ ShadowStrs(node.effects, ShadowVarId(node), variableIdMap) # <<>>
    THEN <<"box-shadow: "
           \o Join(ShadowStrs(node.effects, ShadowVarId(node), variableIdMap), ", ") \o ";">>
    ELSE <<>>

\* lines 554-559
OverflowProps(node) ==
  IF Has(node, "overflowDirection") /\ node.overflowDirection # "NONE"
    THEN <<"overflow: scroll;">>
  ELSE IF Has(node, "clipsContent") /\ node.clipsContent THEN <<"overflow: hidden;">>
  ELSE <<>>

JustifyOf(v) ==
  IF v = "CENTER" THEN "center" ELSE IF v = "MAX" THEN "flex-end"
  ELSE IF v = "SPACE_BETWEEN" THEN "space-between" ELSE "flex-start"

AlignOf(v) == IF v = "BASELINE" THEN "baseline" ELSE JustifyOf(v)

\* lines 560-624
FlexProps(node) ==
  IF Has(node, "layoutMode") /\ node.layoutMode \in {"HORIZONTAL", "VERTICAL"}
    THEN <<"display: flex;">>
         \o (IF node.layoutMode = "VERTICAL" THEN <<"flex-direction: column;">> ELSE <<>>)
         \o (IF Has(node, "paddingLeft") /\ Has(node, "paddingRight")
                /\ Has(node, "paddingTop") /\ Has(node, "paddingBottom")
               THEN <<"padding: " \o formatNum(node.paddingTop) \o "px "
                      \o formatNum(node.paddingRight) \o "px "
                      \o formatNum(node.paddingBottom) \o "px " \o Px(node.paddingLeft)>>
               ELSE <<>>)
         \o (IF Has(node, "itemSpacing") THEN <<"gap: " \o Px(node.itemSpacing)>> ELSE <<>>)
         \o (IF Has(node, "layoutWrap")
               THEN <<"flex-wrap: " \o (IF node.layoutWrap = "WRAP" THEN "wrap" ELSE "nowrap")
                      \o ";">>
               ELSE <<>>)
         \o (IF Has(node, "primaryAxisAlignItems")
               THEN <<"justify-content: " \o JustifyOf(node.primaryAxisAlignItems) \o ";">>
               ELSE <<>>)
         \o (IF Has(node, "counterAxisAlignItems")
               THEN <<"align-items: " \o AlignOf(node.counterAxisAlignItems) \o ";">>
               ELSE <<>>)
    ELSE <<>>

\* lines 625-631
MaxSizeProps(node) ==
  (IF Has(node, "maxWidth") THEN <<"max-width: " \o Px(node.maxWidth)>> ELSE <<>>)
  \o (IF Has(node, "maxHeight") THEN <<"max-height: " \o Px(node.maxHeight)>> ELSE <<>>)

\* width / height as a number: three decimals unless the quotient is exact
RatioStr(w, h) ==
  IF (w * 1000) % h = 0 THEN formatNum((w * 1000) \div h)
  ELSE toFixed3((2 * w * 1000 + h) \div (2 * h))

\* lines 634-652
AspectRatioProps(node) ==
  IF Has(node, "targetAspectRatio") /\ Has(node.targetAspectRatio, "x")
     /\ Has(node.targetAspectRatio, "y")
     /\ node.targetAspectRatio.x > 0 /\ node.targetAspectRatio.y > 0
    THEN <<"aspect-ratio: " \o formatNum(node.targetAspectRatio.x) \o " / "
           \o formatNum(node.targetAspectRatio.y) \o ";">>
  ELSE IF Has(node, "preserveRatio") /\ node.preserveRatio
          /\ HasBoxNumber(node, "width") /\ HasBoxNumber(node, "height")
          /\ node.absoluteBoundingBox.height # 0
    THEN <<"aspect-ratio: "
           \o RatioStr(node.absoluteBoundingBox.width, node.absoluteBoundingBox.height)
           \o ";">>
  ELSE <<>>

\* lines 654-660
defaultVars ==
  << [key |-> "color", value |-> "var(--text-primary)"],
     [key |-> "font-size", value |-> "var(--font-size-default)"],
     [key |-> "font-weight", value |-> "var(--typeface-regular-weight)"],
     [key |-> "font-family", value |-> "var(--typeface-primary)"],
     [key |-> "letter-spacing", value |-> "0px"] >>

\* a filter that drops nothing
IsDefaultNever(prop) == FALSE

\* lines 661-668: the declaration starts with a default's key and contains
\* its value
IsDefault(prop) ==
  \E i \in 1..Len(defaultVars) :
    StartsWith(prop, defaultVars[i].key \o ":") /\ Includes(prop, defaultVars[i].value)

RECURSIVE FilterDefaults(_)
FilterDefaults(props) ==
  IF props = <<>> THEN <<>>
  ELSE (IF IsDefault(props[1]) THEN <<>> ELSE <<props[1]>>) \o FilterDefaults(Tail(props))

\* an INSTANCE node that also gets its background, opacity, radius and
\* border
InstancePropsStyled(node, parentLayoutMode, parentNode) ==
  PositioningProps(node, parentNode) \o BackgroundProps(node, <<>>)
  \o OpacityRadiusBorderProps(node, <<>>) \o getLayoutSizingProps(node, parentLayoutMode)

\* lines 226-352: the declarations of an INSTANCE node, returned unfiltered
InstanceProps(node, parentLayoutMode, parentNode) ==
  PositioningProps(node, parentNode) \o getLayoutSizingProps(node, parentLayoutMode)

\* lines 226-668: the declarations of a node after the default filter
ResolvedProps(node, parentLayoutMode, parentNode, variableIdMap) ==
  IF node.type = "INSTANCE" THEN InstanceProps(node, parentLayoutMode, parentNode)
  ELSE FilterDefaults(
         PositioningProps(node, parentNode)
         \o (IF node.type = "TEXT" THEN TextProps(node, variableIdMap) ELSE <<>>)
         \o BackgroundProps(node, variableIdMap)
         \o OpacityRadiusBorderProps(node, variableIdMap)
         \o ShadowProps(node, variableIdMap)
         \o OverflowProps(node)
         \o FlexProps(node)
         \o MaxSizeProps(node)
         \o getLayoutSizingProps(node, parentLayoutMode)
         \o AspectRatioProps(node))

\* lines 670-680: the declarations packed into lines of at most 80
\* characters; acc is the lines pushed so far, line the current line
RECURSIVE WrapLines(_, _, _)
WrapLines(props, acc, line) ==
  IF props = <<>> THEN (IF line # "" THEN Append(acc, Trim(line)) ELSE acc)
  ELSE LET joined == line \o (IF line # "" THEN " " ELSE "") \o props[1]
       IN  IF Len(joined) > 80
             THEN WrapLines(Tail(props), Append(acc, Trim(line)), props[1])
             ELSE WrapLines(Tail(props), acc, joined)

\* nodeToScss: the rule body of a node
nodeToScss(node, parentLayoutMode, parentNode, variableIdMap) ==
  IF node.type = "INSTANCE"
    THEN Join(InstanceProps(node, parentLayoutMode, parentNode), " ")
    ELSE Join(WrapLines(ResolvedProps(node, parentLayoutMode, parentNode, variableIdMap),
                        <<>>, ""),
              "\n  ")

(***************************************************************************)
(* The TypeErrors of nodeToScss: a callback that reads a property of an    *)
(* array entry raises when the entry is null.                              *)
(***************************************************************************)
IsNullEntry(e) == Has(e, "null")

\* line 452, fills.find((f) => f.type === 'IMAGE'): the entries are read up
\* to the first image
RECURSIVE FindImageRaises(_)
FindImageRaises(fills) ==
  IF fills = <<>> THEN FALSE
  ELSE IF IsNullEntry(fills[1]) THEN TRUE
  ELSE IF Has(fills[1], "type") /\ fills[1].type = "IMAGE" THEN FALSE
  ELSE FindImageRaises(Tail(fills))

\* line 515, effectVars.find((v) => v.type === 'VARIABLE_ALIAS' && v.id)
RECURSIVE FindAliasRaises(_)
FindAliasRaises(items) ==
  IF items = <<>> THEN FALSE
  ELSE IF IsNullEntry(items[1]) THEN TRUE
  ELSE IF IsAlias(items[1]) THEN FALSE
  ELSE FindAliasRaises(Tail(items))

\* line 510, effects.filter((e) => e.type === ...): every entry is read
FilterEffectsRaises(effects) == \E k \in 1..Len(effects) : IsNullEntry(effects[k])

\* nodeToScss raises instead of returning a rule
nodeToScssRaises(node) ==
  /\ node.type # "INSTANCE"
  /\ \/ /\ ~FirstFillHidden(node)
        /\ node.type # "TEXT"
        /\ Has(node, "fills")
        /\ FindImageRaises(node.fills)
     \/ /\ Has(node, "effects")
        /\ \/ FilterEffectsRaises(node.effects)
           \/ /\ Has(node, "boundVariables")
              /\ Has(node.boundVariables, "effects")
              /\ node.boundVariables.effects.array
              /\ FindAliasRaises(node.boundVariables.effects.items)

(***************************************************************************)
(* The ancestry index: parentMap and idMap, built by one pre-order         *)
(* traversal of the whole document.  Nodes are identified by their id.     *)
(***************************************************************************)
ChildrenOf(node) == IF Has(node, "children") THEN node.children ELSE <<>>

RECURSIVE PreOrder(_, _), PreOrderAll(_, _)
PreOrder(node, parent) ==
  <<[node |-> node, parent |-> parent]>> \o PreOrderAll(ChildrenOf(node), node)

PreOrderAll(children, parent) ==
  IF children = <<>> THEN <<>>
  ELSE PreOrder(children[1], parent) \o PreOrderAll(Tail(children), parent)

\* lines 86-97: id -> parent node (NullNode for the document itself)
buildParentMap(figmaDocument) ==
  LET visits == PreOrder(figmaDocument, NullNode)
  IN  [id \in {visits[i].node.id : i \in 1..Len(visits)} |->
         visits[CHOOSE i \in 1..Len(visits) :
                  /\ visits[i].node.id = id
                  /\ \A j \in (i + 1)..Len(visits) : visits[j].node.id # id].parent]

\* lines 100-111: id -> node
buildIdMap(figmaDocument) ==
  LET visits == PreOrder(figmaDocument, NullNode)
  IN  [id \in {visits[i].node.id : i \in 1..Len(visits)} |->
         visits[CHOOSE i \in 1..Len(visits) :
                  /\ visits[i].node.id = id
                  /\ \A j \in (i + 1)..Len(visits) : visits[j].node.id # id].node]

\* Map.get, with NullNode for undefined
MapGet(map, id) == IF id \in DOMAIN map THEN map[id] ELSE NullNode

\* lines 114-117
findMasterComponent(instanceNode, idMap) ==
  IF Has(instanceNode, "componentId") /\ instanceNode.componentId # ""
    THEN MapGet(idMap, instanceNode.componentId)
    ELSE NullNode

\* lines 120-131: the component or one of its ancestors is named like an
\* icon container
RECURSIVE isIconComponent(_, _)
isIconComponent(componentNode, parentMap) ==
  IF IsNull(componentNode) THEN FALSE
  ELSE IF Includes(toLowerCase(componentNode.name), "icons")
          \/ Includes(toLowerCase(componentNode.name), "icon_sprite") THEN TRUE
  ELSE isIconComponent(MapGet(parentMap, componentNode.id), parentMap)

(***************************************************************************)
(* The class registry: a sequence of [cls, node] entries with distinct     *)
(* cls, in insertion order (a JavaScript Map).                             *)
(***************************************************************************)
MapHas(cm, cls) == \E i \in 1..Len(cm) : cm[i].cls = cls

\* a registry in which the last node of a class name replaces the first
RegisterLast(cm, cls, node) ==
  IF MapHas(cm, cls)
    THEN [i \in 1..Len(cm) |-> IF cm[i].cls = cls THEN [cls |-> cls, node |-> node]
                                                 ELSE cm[i]]
    ELSE Append(cm, [cls |-> cls, node |-> node])

\* if (!classMap.has(nodeClass)) classMap.set(nodeClass, node)
Register(cm, cls, node) ==
  IF MapHas(cm, cls) THEN cm ELSE Append(cm, [cls |-> cls, node |-> node])

(***************************************************************************)
(* The markup emitter, nodeToJsx.                                          *)
(***************************************************************************)
\* String(number) of a fixed-point value
RECURSIVE StripZeros(_)
StripZeros(s) ==
  IF s # "" /\ CharAt(s, Len(s)) = "0" THEN StripZeros(SubSeq(s, 1, Len(s) - 1)) ELSE s

NumberToString(v) ==
  IF IsInteger(v) THEN ToString(v \div 1000)
  ELSE (IF v < 0 THEN "-" ELSE "") \o ToString(Abs(v) \div 1000) \o "."
       \o StripZeros(Pad3(Abs(v) % 1000))

\* the characters whose charCodeAt the fallback prop name can need
CodedChars == " !#$%&*+-./:?@_"

CharCodes == <<32, 33, 35, 36, 37, 38, 42, 43, 45, 46, 47, 58, 63, 64, 95>>

charCodeAt(c) ==
  IF c \in CharsOf(CodedChars)
    THEN ToString(CharCodes[CHOOSE i \in 1..Len(CodedChars) : CharAt(CodedChars, i) = c])
    ELSE "63"

RECURSIVE CodedName(_)
CodedName(s) ==
  IF s = "" THEN ""
  ELSE (IF IsAlnum(CharAt(s, 1)) THEN CharAt(s, 1) ELSE charCodeAt(CharAt(s, 1)))
       \o CodedName(SliceFrom(s, 1))

\* key.includes('#') ? key.split('#')[0] : key
CleanKey(key) ==
  IF Occurrences(key, "#") = {} THEN key ELSE SubSeq(key, 1, Min(Occurrences(key, "#")) - 1)

\* a prop name made from the whole key, the part after # included
PropNameKeepHash(key) ==
  LET pascal == toPascalCase(key)
  IN  IF pascal = "" THEN "_" \o CodedName(key)
      ELSE LowerChar(CharAt(pascal, 1)) \o SliceFrom(pascal, 1)

\* lines 160-170
PropName(key) ==
  LET pascal == toPascalCase(CleanKey(key))
  IN  IF pascal = "" THEN "_" \o CodedName(CleanKey(key))
      ELSE LowerChar(CharAt(pascal, 1)) \o SliceFrom(pascal, 1)

\* line 171: valueObj.value when defined, else valueObj itself (an object);
\* a JavaScript value is [t |-> its typeof, v |-> the value]
PropValue(valueObj) ==
  IF Has(valueObj, "value") THEN valueObj.value ELSE [t |-> "object"]

\* a prop that passes boolean-looking strings through as strings
PropOfVerbatim(key, valueObj) ==
  LET p == PropValue(valueObj)
  IN  IF p.t = "string" THEN <<PropName(key) \o "=\"" \o p.v \o "\"">>
      ELSE <<>>

\* lines 172-183: the prop of one component property, if any
PropOf(key, valueObj) ==
  LET p == PropValue(valueObj)
  IN  IF p.t = "string"
        THEN IF toLowerCase(p.v) = "true" THEN <<PropName(key) \o "={true}">>
             ELSE IF toLowerCase(p.v) = "false" THEN <<PropName(key) \o "={false}">>
             ELSE <<PropName(key) \o "=\"" \o p.v \o "\"">>
      ELSE IF p.t = "number" THEN <<PropName(key) \o "={" \o NumberToString(p.v) \o "}">>
      ELSE IF p.t = "boolean"
        THEN <<PropName(key) \o "={" \o (IF p.v THEN "true" ELSE "false") \o "}">>
      ELSE <<>>

\* componentProperties: the sequence of [key, valueObj] in Object.entries order
RECURSIVE PropsOf(_)
PropsOf(entries) ==
  IF entries = <<>> THEN <<>>
  ELSE PropOf(entries[1].key, entries[1].valueObj) \o PropsOf(Tail(entries))

RECURSIVE IndentEach(_, _)
IndentEach(parts, indentStr) ==
  IF parts = <<>> THEN <<>>
  ELSE <<indentStr \o "  " \o parts[1]>> \o IndentEach(Tail(parts), indentStr)

\* a reference that renders the children of the instance inside it
ComponentJsxWithChildren(node, nodeClass, indentStr) ==
  LET prefix == SubSeq(nodeClass, 1, Len(nodeClass) - Len(sanitize(node.name)))
      kids == [k \in 1..Len(ChildrenOf(node)) |->
                 indentStr \o "  <div className={styles." \o prefix
                 \o sanitize(node.children[k].name) \o "}></div>"]
      open == indentStr \o "<" \o toPascalCase(node.name) \o " className={styles."
              \o nodeClass \o "}"
  IN  IF kids = <<>> THEN open \o " />"
      ELSE open \o ">\n" \o Join(kids, "\n") \o "\n" \o indentStr \o "</"
           \o toPascalCase(node.name) \o ">"

\* lines 154-196: a component reference
ComponentJsx(node, nodeClass, indentStr) ==
  LET propsArr == <<"className={styles." \o nodeClass \o "}">>
                  \o (IF Has(node, "componentProperties")
                        THEN PropsOf(node.componentProperties) ELSE <<>>)
      jsxLine == "<" \o toPascalCase(node.name) \o " " \o Join(propsArr, " ") \o " />"
  IN  IF Len(jsxLine) <= 80 THEN indentStr \o jsxLine
      ELSE indentStr \o "<" \o toPascalCase(node.name) \o "\n"
           \o Join(IndentEach(propsArr, indentStr), "\n") \o "\n" \o indentStr \o "/>"

\* lines 136-140; rootClassName and rootClass are the same value at every
\* call, and "" stands for a falsy name
NodeClass(node, isRoot, rootClass) ==
  IF isRoot THEN (IF rootClass # "" THEN rootClass ELSE sanitize(node.name))
  ELSE rootClass \o "_" \o sanitize(node.name)

\* an element chosen by the tag alone, for the root as for any other node
ElementJsxByTag(node, nodeClass, isRoot, indentStr, childrenJsx) ==
  LET open == "className={styles." \o nodeClass \o "}"
      tag == getTag(node)
  IN  IF tag = "img"
        THEN indentStr \o "<img " \o open \o " alt=\"" \o sanitize(node.name) \o "\" />"
      ELSE IF tag = "span" /\ Has(node, "characters") /\ node.characters # ""
        THEN indentStr \o "<span " \o open \o ">" \o node.characters \o "</span>"
      ELSE IF childrenJsx # ""
        THEN indentStr \o "<" \o tag \o " " \o open \o ">" \o "\n" \o childrenJsx \o "\n"
             \o indentStr \o "</" \o tag \o ">"
        ELSE indentStr \o "<" \o tag \o " " \o open \o "></" \o tag \o ">"

\* lines 205-221: the element of a node that is not a component reference
ElementJsx(node, nodeClass, isRoot, indentStr, childrenJsx) ==
  LET open == "className={styles." \o nodeClass \o "}"
      tag == getTag(node)
  IN  IF isRoot
        THEN IF childrenJsx # ""
               THEN indentStr \o "<div " \o open \o ">" \o "\n" \o childrenJsx \o "\n"
                    \o indentStr \o "</div>"
               ELSE indentStr \o "<div " \o open \o "></div>"
      ELSE IF tag = "img"
        THEN indentStr \o "<img " \o open \o " alt=\"" \o sanitize(node.name) \o "\" />"
      ELSE IF tag = "span" /\ Has(node, "characters") /\ node.characters # ""
        THEN indentStr \o "<span " \o open \o ">" \o node.characters \o "</span>"
      ELSE IF childrenJsx # ""
        THEN indentStr \o "<" \o tag \o " " \o open \o ">" \o "\n" \o childrenJsx \o "\n"
             \o indentStr \o "</" \o tag \o ">"
        ELSE indentStr \o "<" \o tag \o " " \o open \o "></" \o tag \o ">"

\* nodeToJsx and the map over the children: the markup of the node and the
\* registry after the visit
RECURSIVE nodeToJsx(_, _, _, _, _, _), childrenToJsx(_, _, _, _, _)
nodeToJsx(node, indent, isRoot, rootClass, cm, maps) ==
  LET nodeClass == NodeClass(node, isRoot, rootClass)
      indentStr == Repeat("  ", indent)
  IN  IF node.type = "INSTANCE" /\ ~isRoot
        THEN [cm |-> Register(cm, nodeClass, node),
              jsx |-> IF isIconComponent(findMasterComponent(node, maps.idMap),
                                         maps.parentMap)
                        THEN indentStr \o "<Icon name=\"" \o sanitize(node.name) \o "\" />"
                        ELSE ComponentJsx(node, nodeClass, indentStr)]
        ELSE LET kids == childrenToJsx(ChildrenOf(node), indent + 1, rootClass, cm, maps)
             IN  [cm |-> Register(kids.cm, nodeClass, node),
                  jsx |-> ElementJsx(node, nodeClass, isRoot, indentStr,
                                     Join(kids.parts, "\n"))]

childrenToJsx(children, indent, rootClass, cm, maps) ==
  IF children = <<>> THEN [cm |-> cm, parts |-> <<>>]
  ELSE LET first == nodeToJsx(children[1], indent, FALSE, rootClass, cm, maps)
           rest == childrenToJsx(Tail(children), indent, rootClass, first.cm, maps)
       IN  [cm |-> rest.cm, parts |-> <<first.jsx>> \o rest.parts]

(***************************************************************************)
(* The stylesheet assembly and convertFigmaToMarkup.                       *)
(***************************************************************************)
\* /position:\s*(absolute|fixed)/.test(rule)
RECURSIVE SkipSpaces(_)
SkipSpaces(s) == IF s # "" /\ IsSpace(CharAt(s, 1)) THEN SkipSpaces(SliceFrom(s, 1)) ELSE s

SetsPosition(rule) ==
  \E i \in Occurrences(rule, "position:") :
    LET rest == SkipSpaces(SliceFrom(rule, i + 8))
    IN  StartsWith(rest, "absolute") \/ StartsWith(rest, "fixed")

\* lines 706-714: some child is absolutely positioned or fixed
HasAbsOrFixedChild(node) ==
  \E i \in 1..Len(ChildrenOf(node)) :
    LET child == node.children[i]
    IN  \/ (Has(child, "layoutPositioning") /\ child.layoutPositioning = "ABSOLUTE")
        \/ (Has(child, "isFixed") /\ child.isFixed)

\* an injection that does not look at the rule
WithRelativeAlways(node, rule) ==
  IF HasAbsOrFixedChild(node) THEN "position: relative; " \o rule ELSE rule

\* lines 716-720 and 729-732
WithRelative(node, rule) ==
  IF HasAbsOrFixedChild(node) /\ ~SetsPosition(rule) THEN "position: relative; " \o rule
  ELSE rule

\* s.replace(/\n/g, '\n  ')
RECURSIVE IndentNewlines(_)
IndentNewlines(s) ==
  IF Occurrences(s, "\n") = {} THEN s
  ELSE LET i == Min(Occurrences(s, "\n"))
       IN  SubSeq(s, 1, i - 1) \o "\n  " \o IndentNewlines(SliceFrom(s, i))

\* a selector that never nests under the root class
NestedSelectorFlat(className, rootClass) == "." \o className

\* lines 734-736
NestedSelector(className, rootClass) ==
  IF StartsWith(className, rootClass \o "_")
    THEN "&" \o SliceFrom(className, Len(rootClass))
    ELSE "." \o className

\* lines 725-726: the parent's layoutMode, "" for null
ParentLayoutMode(parent) ==
  IF ~IsNull(parent) /\ Has(parent, "layoutMode") /\ parent.layoutMode # ""
    THEN parent.layoutMode ELSE ""

\* an assembly that writes out a rule without declarations too
NestedRuleKeepEmpty(entry, figmaNode, rootClass, parentMap, variableIdMap) ==
  IF entry.node.id = figmaNode.id THEN ""
  ELSE LET parent == MapGet(parentMap, entry.node.id)
           rule == WithRelative(entry.node,
                                nodeToScss(entry.node, ParentLayoutMode(parent), parent,
                                           variableIdMap))
       IN  "  " \o NestedSelector(entry.cls, rootClass) \o " {" \o IndentNewlines(rule)
           \o "}\n"

\* lines 722-744: the text one registry entry adds to the stylesheet
NestedRule(entry, figmaNode, rootClass, parentMap, variableIdMap) ==
  IF entry.node.id = figmaNode.id THEN ""
  ELSE LET parent == MapGet(parentMap, entry.node.id)
           rule == WithRelative(entry.node,
                                nodeToScss(entry.node, ParentLayoutMode(parent), parent,
                                           variableIdMap))
       IN  IF rule = "" THEN ""
           ELSE IF Occurrences(rule, "\n") = {}
             THEN "  " \o NestedSelector(entry.cls, rootClass) \o " {" \o rule \o "}\n"
             ELSE "  " \o NestedSelector(entry.cls, rootClass) \o " {"
                  \o IndentNewlines(rule) \o "\n    }\n"

\* an assembly that writes the rules from the last entry to the first
RECURSIVE NestedRulesReversed(_, _, _, _, _)
NestedRulesReversed(classEntries, figmaNode, rootClass, parentMap, variableIdMap) ==
  IF classEntries = <<>> THEN ""
  ELSE NestedRulesReversed(Tail(classEntries), figmaNode, rootClass, parentMap,
                           variableIdMap)
       \o NestedRule(classEntries[1], figmaNode, rootClass, parentMap, variableIdMap)

\* line 722: classEntries.forEach, in insertion order
RECURSIVE NestedRules(_, _, _, _, _)
NestedRules(classEntries, figmaNode, rootClass, parentMap, variableIdMap) ==
  IF classEntries = <<>> THEN ""
  ELSE NestedRule(classEntries[1], figmaNode, rootClass, parentMap, variableIdMap)
       \o NestedRules(Tail(classEntries), figmaNode, rootClass, parentMap, variableIdMap)

\* an assembly that resolves the root against its parent in the document
StylesheetRootInDocument(classEntries, figmaNode, rootClass, parentMap, variableIdMap) ==
  IF \E i \in 1..Len(classEntries) : classEntries[i].node.id = figmaNode.id
    THEN LET parent == MapGet(parentMap, figmaNode.id)
             rootRule == WithRelative(figmaNode,
                                      nodeToScss(figmaNode, ParentLayoutMode(parent), parent,
                                                 variableIdMap))
         IN  "." \o rootClass \o " {" \o (IF rootRule # "" THEN rootRule \o "\n" ELSE "")
             \o NestedRules(classEntries, figmaNode, rootClass, parentMap, variableIdMap)
             \o "}"
    ELSE ""

\* lines 695-746
Stylesheet(classEntries, figmaNode, rootClass, parentMap, variableIdMap) ==
  IF \E i \in 1..Len(classEntries) : classEntries[i].node.id = figmaNode.id
    THEN LET rootRule == WithRelative(figmaNode,
                                      nodeToScss(figmaNode, "", NullNode, variableIdMap))
         IN  "." \o rootClass \o " {" \o (IF rootRule # "" THEN rootRule \o "\n" ELSE "")
             \o NestedRules(classEntries, figmaNode, rootClass, parentMap, variableIdMap)
             \o "}"
    ELSE ""

\* lines 715 and 728: the assembly resolves the node of every registry
\* entry, and a TypeError of one of them ends the conversion
StylesheetRaises(classEntries) ==
  \E i \in 1..Len(classEntries) : nodeToScssRaises(classEntries[i].node)

\* line 692; "" stands for an absent override
RootClass(figmaNode, rootClassOverride) ==
  sanitize(IF rootClassOverride # "" THEN rootClassOverride ELSE figmaNode.name)

\* a registry that outlives the call: the one the previous call left
classMapOfLastCall == classMap

\* line 82: the registry a conversion starts from
NewClassMap == <<>>

\* lines 16-752: the registry, the markup and the stylesheet of one
\* conversion that starts from the registry cm0
convertFigmaToMarkup(figmaNode, rootClassOverride, figmaDocument, variableIdMap, cm0) ==
  LET maps == [parentMap |-> buildParentMap(figmaDocument),
               idMap |-> buildIdMap(figmaDocument)]
      rootClass == RootClass(figmaNode, rootClassOverride)
      walk == nodeToJsx(figmaNode, 0, TRUE, rootClass, cm0, maps)
  IN  [classMap |-> walk.cm,
       jsx |-> walk.jsx,
       scss |-> Stylesheet(walk.cm, figmaNode, rootClass, maps.parentMap, variableIdMap),
       raised |-> StylesheetRaises(walk.cm)]

(***************************************************************************)
(* The documents converted.  Every document is                            *)
(*   Document > Page > { Icons > arrow, Button, Screen > target }          *)
(* where the target is the node handed to convertFigmaToMarkup.            *)
(***************************************************************************)
Box(x, y, w, h) == [x |-> x * 1000, y |-> y * 1000, width |-> w * 1000, height |-> h * 1000]

Rgb(r, g, b) == [r |-> r * 1000, g |-> g * 1000, b |-> b * 1000]

Node(id, name, type) == [id |-> id, name |-> name, type |-> type]

WithKids(node, kids) == IF kids = <<>> THEN node ELSE node @@ [children |-> kids]

IconMaster == Node("1:2", "arrow", "COMPONENT")

IconsFrame == WithKids(Node("1:1", "Icons", "FRAME"), <<IconMaster>>)

ButtonMaster == Node("1:3", "Button", "COMPONENT")

Screen(target) ==
  WithKids(Node("2:0", "Screen", "FRAME")
             @@ [layoutMode |-> "HORIZONTAL", absoluteBoundingBox |-> Box(0, 0, 400, 300)],
           <<target>>)

Document(target) ==
  WithKids(Node("0:0", "Document", "DOCUMENT"),
           <<WithKids(Node("0:1", "Page 1", "CANVAS"),
                      <<IconsFrame, ButtonMaster, Screen(target)>>)>>)

\* the target nodes
PlainRoot == Node("2:1", "Card", "FRAME") @@ [absoluteBoundingBox |-> Box(20, 30, 200, 100)]

VerticalRoot == Node("2:1", "Card", "FRAME") @@ [layoutMode |-> "VERTICAL", itemSpacing |-> 8000]

Roots == {PlainRoot, VerticalRoot}

\* a target that is itself fixed, 10px from the right and bottom edges of
\* the screen around it
FixedRoot ==
  Node("2:1", "Card", "FRAME")
    @@ [isFixed |-> TRUE, constraints |-> [horizontal |-> "RIGHT", vertical |-> "BOTTOM"],
        absoluteBoundingBox |-> Box(310, 240, 80, 50)]

\* present ? {field: value} : {}
Opt(present, field, value) == IF present THEN field :> value ELSE <<>>

Ref(id) == [type |-> "VARIABLE_ALIAS", id |-> id]

\* a bound-variable entry: one reference, an array of one reference, an
\* array whose reference has no type, or an empty array
Binding(form, id) ==
  IF form = "single" THEN [array |-> FALSE, items |-> <<Ref(id)>>]
  ELSE IF form = "array" THEN [array |-> TRUE, items |-> <<Ref(id)>>]
  ELSE IF form = "untyped" THEN [array |-> TRUE, items |-> <<[id |-> id]>>]
  ELSE [array |-> TRUE, items |-> <<>>]

Bound(attr, form, id) == Opt(form # "none", attr, Binding(form, id))

WithBound(node, bound) ==
  IF DOMAIN bound = {} THEN node ELSE node @@ [boundVariables |-> bound]

Black == [type |-> "SOLID", color |-> Rgb(0, 0, 0)]

HalfRed == [type |-> "SOLID", color |-> Rgb(1, 0, 0), opacity |-> 500]

QuarterBlue == [type |-> "SOLID", color |-> [r |-> 0, g |-> 502, b |-> 1000], opacity |-> 250]

ClearGreen == [type |-> "SOLID", color |-> Rgb(0, 1, 0), opacity |-> 0]

HiddenBlack == [type |-> "SOLID", color |-> Rgb(0, 0, 0), visible |-> FALSE]

Image(scaleMode) == [type |-> "IMAGE", scaleMode |-> scaleMode]

FillLists ==
  [black |-> <<Black>>, halfred |-> <<HalfRed>>, quarterblue |-> <<QuarterBlue>>,
   cleargreen |-> <<ClearGreen>>, hidden |-> <<HiddenBlack>>,
   nocolor |-> <<[type |-> "SOLID"]>>, imagefill |-> <<Image("FILL")>>,
   imagefit |-> <<Image("FIT")>>, blacktile |-> <<Black, Image("TILE")>>,
   imagecrop |-> <<Image("CROP")>>]

Fills(kind) == Opt(kind # "none", "fills", FillLists[kind])

\* the variable bindings tried on an attribute: [form, id]
Bindings ==
  { [form |-> "none", id |-> ""], [form |-> "single", id |-> "V:1"],
    [form |-> "array", id |-> "V:1"], [form |-> "array", id |-> "V:0"],
    [form |-> "array", id |-> "V:2"], [form |-> "empty", id |-> ""] }

\* text nodes that vary the fill and its binding
TextColorNodes(id) ==
  { WithBound(Node(id, "Title", "TEXT") @@ [characters |-> "Hi"] @@ Fills(kind),
              Bound("fills", b.form, b.id)) :
      kind \in {"none", "black", "halfred", "cleargreen", "hidden", "nocolor"},
      b \in Bindings }

TextStyles ==
  [none |-> <<>>,
   custom |-> [fontStyle |-> "700", fontFamily |-> "Inter", fontSize |-> 14000,
               letterSpacing |-> 1500, lineHeightPercentFontSize |-> 120000,
               textAlignHorizontal |-> "CENTER"],
   zero |-> [fontSize |-> 16000, letterSpacing |-> 0, textAlignHorizontal |-> "TOP"],
   ten |-> [fontSize |-> 12500, letterSpacing |-> 10000, fontFamily |-> "Inter"]]

Style(kind) == Opt(kind # "none", "style", TextStyles[kind])

\* the bindings of fontStyle, fontFamily and fontSize: none, custom
\* variables or the default table's variables
FontBound(form, defaults) ==
  IF defaults
    THEN Bound("fontStyle", form, "V:4") @@ Bound("fontFamily", form, "V:5")
         @@ Bound("fontSize", form, "V:3")
    ELSE Bound("fontStyle", form, "V:8") @@ Bound("fontFamily", form, "V:9")
         @@ Bound("fontSize", form, "V:10")

\* text nodes that vary the font attributes and their bindings
TextFontNodes(id) ==
  { WithBound(Node(id, "Label", "TEXT") @@ [characters |-> "Go"] @@ Fills("black")
                @@ Style(kind),
              FontBound(form, defaults) @@ Bound("fills", colorForm, "V:2")) :
      kind \in {"none", "custom", "zero", "ten"},
      form \in {"none", "single", "array"},
      defaults \in BOOLEAN,
      colorForm \in {"none", "array"} }

\* frames that vary the fill and its binding
BackgroundNodes(id) ==
  { WithBound(Node(id, "Box", "FRAME") @@ Fills(kind), Bound("fills", b.form, b.id)) :
      kind \in {"none", "black", "halfred", "hidden", "imagefill", "imagefit",
                "blacktile", "imagecrop"},
      b \in Bindings }

StrokeLists == [black |-> <<Black>>, quarterblue |-> <<QuarterBlue>>]

\* rectangles that vary the stroke and its binding
BorderNodes(id) ==
  { WithBound(Node(id, "Line 1", "RECTANGLE")
                @@ Opt(kind # "none", "strokes", StrokeLists[kind]),
              Bound("strokes", b.form, IF b.id = "V:1" THEN "V:6" ELSE b.id)) :
      kind \in {"none", "black", "quarterblue"},
      b \in Bindings }

Shadow(x, y, radius, spread) ==
  [type |-> "DROP_SHADOW", offset |-> [x |-> x * 1000, y |-> y * 1000],
   radius |-> radius * 1000, spread |-> spread * 1000,
   color |-> [r |-> 0, g |-> 0, b |-> 0, a |-> 250]]

EffectLists ==
  [soft |-> <<Shadow(0, 4, 8, 0)>>,
   flat |-> <<Shadow(0, 0, 0, 0)>>,
   two |-> <<Shadow(2, 2, 0, 1), Shadow(0, 10, 20, 0) @@ [visible |-> TRUE]>>,
   inner |-> <<[type |-> "INNER_SHADOW", radius |-> 4000]>>,
   hidden |-> <<Shadow(1, 1, 1, 1) @@ [visible |-> FALSE]>>,
   nocolor |-> <<[type |-> "DROP_SHADOW", radius |-> 4000]>>]

\* frames that vary the effects and their binding
ShadowNodes(id) ==
  { WithBound(Node(id, "Shade", "FRAME") @@ [effects |-> EffectLists[kind]],
              Bound("effects", form, "V:7")) :
      kind \in {"soft", "flat", "two", "inner", "hidden", "nocolor"},
      form \in {"none", "single", "array", "untyped"} }

BoxM(x, y, w, h) == [x |-> x, y |-> y, width |-> w, height |-> h]

\* the geometry of a positioned child: the first is 10px from the right
\* and bottom edges of PlainRoot, the others move and widen it by fractions
ChildBoxes ==
  {BoxM(130000 - 2500 * i, 70000 - 500 * i, 80000 - 1000 * i, 50000) : i \in 0..MaxShift}

ConstraintKinds ==
  [rb |-> [horizontal |-> "RIGHT", vertical |-> "BOTTOM"],
   cc |-> [horizontal |-> "CENTER", vertical |-> "CENTER"],
   ss |-> [horizontal |-> "SCALE", vertical |-> "SCALE"],
   lt |-> [horizontal |-> "LEFT", vertical |-> "TOP"]]

PositionKinds ==
  [fixed |-> [isFixed |-> TRUE],
   absolute |-> [layoutPositioning |-> "ABSOLUTE"],
   both |-> [isFixed |-> TRUE, layoutPositioning |-> "ABSOLUTE"],
   unfixed |-> [isFixed |-> FALSE, layoutPositioning |-> "AUTO"]]

\* children that vary the positioning, the constraints and the geometry
PositionedNodes(id) ==
  { Node(id, "Badge", type) @@ PositionKinds[pos]
      @@ Opt(con # "none", "constraints", ConstraintKinds[con])
      @@ Opt(hasBox, "absoluteBoundingBox", box) :
      type \in {"FRAME", "INSTANCE"},
      pos \in {"fixed", "absolute", "both"},
      con \in {"rb", "cc", "ss", "none"},
      box \in ChildBoxes, hasBox \in BOOLEAN }
  \cup
  { Node(id, "Badge", "TEXT") @@ PositionKinds[pos] @@ [characters |-> "9"]
      @@ [constraints |-> ConstraintKinds[con]]
      @@ [absoluteBoundingBox |-> BoxM(130000, 70000, 80000, 50000)] :
      pos \in {"fixed", "unfixed"}, con \in {"rb", "lt"} }

Str(v) == [value |-> [t |-> "string", v |-> v]]

ComponentProperties ==
  [active |-> <<[key |-> "Active#123", valueObj |-> Str("True")]>>,
   mixed |-> << [key |-> "is disabled", valueObj |-> Str("FALSE")],
                [key |-> "Size#1:2", valueObj |-> Str("Large")],
                [key |-> "Count", valueObj |-> [value |-> [t |-> "number", v |-> 3000]]],
                [key |-> "On", valueObj |-> [value |-> [t |-> "boolean", v |-> TRUE]]],
                [key |-> "Slot", valueObj |-> [type |-> "INSTANCE_SWAP"]],
                [key |-> "#9", valueObj |-> Str("x")] >>,
   long |-> << [key |-> "Label#1", valueObj |-> Str("Continue to checkout")],
               [key |-> "Helper Text#2", valueObj |-> Str("You can review your order")],
               [key |-> "Active#3", valueObj |-> Str("true")] >>]

\* component instances that vary the name, the master, the component
\* properties and the sizing
InstanceNodes(id) ==
  { Node(id, name, "INSTANCE")
      @@ Opt(comp # "", "componentId", comp)
      @@ Opt(props # "none", "componentProperties", ComponentProperties[props])
      @@ (IF sized THEN [layoutSizingHorizontal |-> "FIXED", layoutSizingVertical |-> "FILL",
                         absoluteBoundingBox |-> BoxM(20000, 30000, 24000, 24500)]
          ELSE <<>>) :
      name \in {"Button", "primary button 2"},
      comp \in {"", "1:3", "1:2", "9:9"},
      props \in {"none", "active", "mixed", "long"},
      sized \in BOOLEAN }

\* a component instance that carries every kind of style attribute
StyledInstance(id) ==
  WithBound(Node(id, "Button", "INSTANCE")
              @@ [componentId |-> "1:3", fills |-> <<Black>>, strokes |-> <<Black>>,
                  effects |-> EffectLists["soft"], opacity |-> 500, cornerRadius |-> 4000,
                  clipsContent |-> TRUE, layoutMode |-> "VERTICAL", itemSpacing |-> 8000,
                  primaryAxisAlignItems |-> "CENTER", maxWidth |-> 300000,
                  characters |-> "Hi", style |-> TextStyles["custom"],
                  layoutSizingHorizontal |-> "FIXED", layoutSizingVertical |-> "FILL",
                  layoutPositioning |-> "ABSOLUTE",
                  constraints |-> ConstraintKinds["rb"],
                  absoluteBoundingBox |-> Box(30, 40, 80, 50)],
            [fills |-> Binding("array", "V:1"), strokes |-> Binding("array", "V:6"),
             effects |-> Binding("array", "V:7")])

Inner(id) == Node(id, "Inner", "FRAME") @@ Fills("black")

TitleText(id) == Node(id, "Title", "TEXT") @@ [characters |-> "Hi"] @@ Fills("black")

\* nodes that vary the structure: leaves with children, empty nodes,
\* nested containers with positioned children
StructuralNodes(id) ==
  { WithKids(Node(id, "Note", "TEXT") @@ [characters |-> "Hello"], <<Inner("4:1")>>),
    WithKids(Node(id, "Note", "TEXT"), <<Inner("4:1")>>),
    WithKids(Node(id, "Photo 1", "IMAGE"), <<Inner("4:1")>>),
    Node(id, "Photo 1", "IMAGE") @@ [cornerRadius |-> 4000],
    Node(id, "Spacer", "FRAME"),
    WithKids(Node(id, "Panel", "FRAME")
               @@ [layoutMode |-> "HORIZONTAL", absoluteBoundingBox |-> Box(20, 30, 100, 40)],
             << TitleText("4:1"),
                Node("4:2", "Dot", "ELLIPSE")
                  @@ [layoutPositioning |-> "ABSOLUTE",
                      absoluteBoundingBox |-> Box(110, 35, 5, 5)] >>),
    WithKids(Node(id, "Panel", "FRAME") @@ Fills("black"),
             <<Node("4:1", "Panel", "TEXT") @@ [characters |-> "Hi"] @@ Fills("halfred")>>),
    WithKids(Node(id, "Layer", "GROUP") @@ [isFixed |-> TRUE],
             <<Node("4:1", "Dot", "ELLIPSE") @@ [isFixed |-> TRUE] @@ Fills("halfred")>>),
    WithKids(Node(id, "Button", "INSTANCE") @@ [componentId |-> "1:3"],
             <<TitleText("4:1"), Node("4:2", "Chip", "INSTANCE")>>) }

\* styled text nodes whose first fill is hidden, with and without a bound
\* fill variable
HiddenTextNodes(id) ==
  { WithBound(Node(id, "Label", "TEXT")
                @@ [characters |-> "Go", fills |-> <<HiddenBlack>>] @@ Style("custom"),
              FontBound("array", FALSE) @@ Bound("fills", "array", "V:1")),
    Node(id, "Label", "TEXT")
      @@ [characters |-> "Go", fills |-> <<HiddenBlack, HalfRed>>] @@ Style("custom") }

\* three drop shadows: their box-shadow declaration is 123 characters long
ThreeShadows == <<Shadow(4, 4, 8, 2), Shadow(2, 2, 12, 1), Shadow(1, 10, 20, 5)>>

\* nodes whose only or second declaration is longer than a line
LongDeclarationNodes(id) ==
  { Node(id, "Shade", "FRAME") @@ [effects |-> ThreeShadows],
    Node(id, "Shade", "FRAME") @@ Fills("black") @@ [effects |-> ThreeShadows] }

LongRoot == Node("2:1", "Card", "FRAME") @@ [effects |-> ThreeShadows]

\* nodes with a sizing on each axis, with and without geometry
SizedNodes(id) ==
  { Node(id, "Cell", "FRAME")
      @@ [layoutSizingHorizontal |-> h, layoutSizingVertical |-> v]
      @@ Opt(hasBox, "absoluteBoundingBox", Box(20, 30, 60, 40)) :
      h \in {"FIXED", "FILL"}, v \in {"FIXED", "FILL", "HUG"}, hasBox \in BOOLEAN }

HorizontalRoot ==
  Node("2:1", "Card", "FRAME")
    @@ [layoutMode |-> "HORIZONTAL", absoluteBoundingBox |-> Box(20, 30, 200, 100)]

\* auto-layout nodes: alignment and wrapping with values of the Figma API
\* and with values outside of it
LayoutNodes(id) ==
  { Node(id, "Row", "FRAME")
      @@ [layoutMode |-> "HORIZONTAL", layoutWrap |-> "WRAP",
          primaryAxisAlignItems |-> "SPACE_BETWEEN", counterAxisAlignItems |-> "BASELINE"],
    Node(id, "Row", "FRAME")
      @@ [layoutMode |-> "VERTICAL", layoutWrap |-> "NO_WRAP",
          primaryAxisAlignItems |-> "MAX", counterAxisAlignItems |-> "CENTER"],
    Node(id, "Row", "FRAME")
      @@ [layoutMode |-> "HORIZONTAL", layoutWrap |-> "AUTO",
          primaryAxisAlignItems |-> "STRETCH", counterAxisAlignItems |-> "STRETCH"],
    Node(id, "Row", "FRAME")
      @@ [layoutWrap |-> "WRAP", primaryAxisAlignItems |-> "CENTER",
          counterAxisAlignItems |-> "CENTER"] }

\* nodes with missing or malformed attributes: arrays that hold null,
\* bindings of unexpected shape, no style, no geometry
MalformedNodes(id) ==
  { Node(id, "Box", "FRAME") @@ [fills |-> <<NullNode>>],
    Node(id, "Box", "FRAME") @@ [fills |-> <<Black, NullNode>>],
    Node(id, "Box", "FRAME") @@ [fills |-> <<Image("FILL"), NullNode>>],
    Node(id, "Box", "FRAME") @@ [fills |-> <<HiddenBlack, NullNode>>],
    Node(id, "Title", "TEXT") @@ [characters |-> "Hi", fills |-> <<NullNode>>],
    Node(id, "Button", "INSTANCE") @@ [fills |-> <<NullNode>>, effects |-> <<NullNode>>],
    Node(id, "Shade", "FRAME") @@ [effects |-> <<NullNode>>],
    Node(id, "Shade", "FRAME") @@ [effects |-> <<Shadow(0, 4, 8, 0), NullNode>>],
    WithBound(Node(id, "Shade", "FRAME") @@ [effects |-> <<Shadow(0, 4, 8, 0)>>],
              [effects |-> [array |-> TRUE, items |-> <<NullNode, Ref("V:7")>>]]),
    WithBound(Node(id, "Shade", "FRAME") @@ [effects |-> <<Shadow(0, 4, 8, 0)>>],
              [effects |-> [array |-> TRUE, items |-> <<Ref("V:7"), NullNode>>]]),
    WithBound(Node(id, "Box", "FRAME") @@ [fills |-> <<Black>>],
              [fills |-> [array |-> TRUE, items |-> <<NullNode>>]]),
    WithBound(Node(id, "Title", "TEXT") @@ [characters |-> "Hi", fills |-> <<Black>>],
              [fills |-> [array |-> FALSE, items |-> <<[type |-> "VARIABLE_ALIAS"]>>],
               fontSize |-> [array |-> TRUE, items |-> <<NullNode>>]]) }

\* lists of two children, some with colliding class names
Pairs ==
  { <<Node("3:1", "Title", "FRAME") @@ Fills("black"),
      Node("3:2", "Title", "TEXT") @@ [characters |-> "Hi"] @@ Fills("halfred")>>,
    <<Node("3:1", "Box", "INSTANCE")
        @@ [layoutSizingHorizontal |-> "FIXED", absoluteBoundingBox |-> Box(0, 0, 24, 24)],
      Node("3:2", "Box", "FRAME") @@ Fills("black")>>,
    <<Node("3:1", "Box", "FRAME") @@ Fills("black"),
      Node("3:2", "Box", "INSTANCE")
        @@ [layoutSizingHorizontal |-> "FIXED", absoluteBoundingBox |-> Box(0, 0, 24, 24)]>>,
    <<WithKids(Node("3:1", "Photo 1", "IMAGE"), <<Inner("4:1")>>),
      Node("3:2", "Inner", "FRAME") @@ Fills("halfred")>>,
    <<Node("3:1", "Icon!", "TEXT") @@ [characters |-> "a"] @@ Fills("black"),
      Node("3:2", "Icon?", "TEXT") @@ [characters |-> "b"] @@ Fills("halfred")>>,
    <<TitleText("3:1"), Node("3:2", "Spacer", "FRAME")>>,
    <<WithKids(Node("3:1", "Button", "INSTANCE") @@ [componentId |-> "1:3"],
               <<TitleText("4:1")>>),
      Node("3:2", "Title", "TEXT") @@ [characters |-> "Yo"] @@ Fills("halfred")>>,
    <<WithKids(Node("3:1", "Photo 1", "IMAGE"), <<Inner("4:1")>>),
      Node("3:2", "Spacer", "FRAME")>> }

Singles ==
  TextColorNodes("3:1") \cup TextFontNodes("3:1") \cup BackgroundNodes("3:1")
  \cup BorderNodes("3:1") \cup ShadowNodes("3:1") \cup PositionedNodes("3:1")
  \cup InstanceNodes("3:1") \cup StructuralNodes("3:1") \cup MalformedNodes("3:1")
  \cup {StyledInstance("3:1")} \cup LayoutNodes("3:1") \cup SizedNodes("3:1")
  \cup LongDeclarationNodes("3:1") \cup HiddenTextNodes("3:1")

KidLists == {<<k>> : k \in Singles} \cup Pairs \cup {<<>>}

\* the identifier maps variableIds.json can hold
IdMapEmpty == <<>>

IdMapFull ==
  << [name |-> "accent", id |-> "V:1"],
     [name |-> "text-primary", id |-> "V:2"],
     [name |-> "font-size-default", id |-> "V:3"],
     [name |-> "typeface-regular-weight", id |-> "V:4"],
     [name |-> "typeface-primary", id |-> "V:5"],
     [name |-> "border-main", id |-> "V:6"],
     [name |-> "shadow-soft", id |-> "V:7"],
     [name |-> "weight-bold", id |-> "V:8"],
     [name |-> "family-head", id |-> "V:9"],
     [name |-> "size-lg", id |-> "V:10"],
     [name |-> "accent-alias", id |-> "V:1"] >>

IdMaps == {IdMapEmpty, IdMapFull}

Targets == {WithKids(r, kids) : r \in Roots, kids \in KidLists}

\* the calls made: every target under its own name, and Scenario A's card
\* under other root class names
\* targets that are a component instance, a text or an image themselves
LeafRoots ==
  { Node("2:1", "Button", "INSTANCE")
      @@ [componentId |-> "1:3", componentProperties |-> ComponentProperties["active"]],
    Node("2:1", "arrow", "INSTANCE") @@ [componentId |-> "1:2"],
    Node("2:1", "Title", "TEXT") @@ [characters |-> "Hi"] @@ Fills("black"),
    Node("2:1", "Photo 1", "IMAGE") }

Calls ==
  {[target |-> t, override |-> ""] : t \in Targets}
  \cup {[target |-> StyledInstance("2:1"), override |-> ""]}
  \cup {[target |-> WithKids(r, kids), override |-> ""] :
          r \in LeafRoots,
          kids \in {<<>>, <<TitleText("3:1"), Node("3:2", "Chip", "INSTANCE")>>}}
  \cup {[target |-> WithKids(VerticalRoot, <<TitleText("3:1")>>), override |-> o] :
          o \in {"Card", "Promo Card", "card_title"}}
  \cup {[target |-> WithKids(HorizontalRoot, <<k>>), override |-> ""] :
          k \in SizedNodes("3:1")}
  \cup {[target |-> WithKids(LongRoot, <<TitleText("3:1")>>), override |-> ""]}
  \cup {[target |-> WithKids(r, <<TitleText("3:1")>>), override |-> ""] :
          r \in {k \in SizedNodes("2:1") : Has(k, "absoluteBoundingBox")}}
  \cup {[target |-> WithKids(FixedRoot, kids), override |-> ""] :
          kids \in {<<>>, <<TitleText("3:1")>>,
                    <<Node("3:1", "Dot", "ELLIPSE") @@ [layoutPositioning |-> "ABSOLUTE"]>>}}

(***************************************************************************)
(* The calls nodeToScss receives during the stylesheet assembly: for each  *)
(* registry entry the node, the parent context and the declarations.       *)
(***************************************************************************)
Resolution(entry, figmaNode, parentMap, variableIdMap) ==
  LET isRoot == entry.node.id = figmaNode.id
      parent == IF isRoot THEN NullNode ELSE MapGet(parentMap, entry.node.id)
      plm == IF isRoot THEN "" ELSE ParentLayoutMode(parent)
  IN  [cls |-> entry.cls, node |-> entry.node, isRoot |-> isRoot, parent |-> parent,
       parentLayoutMode |-> plm,
       props |-> ResolvedProps(entry.node, plm, parent, variableIdMap),
       rule |-> WithRelative(entry.node, nodeToScss(entry.node, plm, parent, variableIdMap))]

Resolutions(classEntries, figmaNode, figmaDocument, variableIdMap) ==
  [i \in 1..Len(classEntries) |->
     Resolution(classEntries[i], figmaNode, buildParentMap(figmaDocument), variableIdMap)]

\* no run of the all command
AllOff ==
  /\ aPc = "off"
  /\ remote = 1
  /\ rawFile = 0
  /\ jsonFile = 0
  /\ fetched = 0
  /\ used = <<>>

(***************************************************************************)
(* The conversion as a state machine: a caller invokes the conversion of a *)
(* target node of a document, and convertFigmaToMarkup runs to completion. *)
(***************************************************************************)
Init ==
  /\ pc = "idle"
  /\ variableIds \in IdMaps
  /\ argDocument = NullNode
  /\ argNode = NullNode
  /\ argRootClass = ""
  /\ classMap = <<>>
  /\ jsx = ""
  /\ scss = ""
  /\ resolved = <<>>
  /\ runs = <<>>
  /\ sName = "" /\ sOnce = "" /\ sTwice = "" /\ sPc = "off"
  /\ AllOff

\* lines 794-805: the caller hands over the resolved node, the root class
\* and the whole document
Invoke(target, override) ==
  /\ pc = "idle"
  /\ argNode' = target
  /\ argDocument' = Document(target)
  /\ argRootClass' = override
  /\ pc' = "ready"
  /\ UNCHANGED <<variableIds, classMap, jsx, scss, resolved, hvars, svars, avars>>

\* a walk that takes the children out of the node it visits
NodeWithoutChildren(node) == [f \in DOMAIN node \ {"children"} |-> node[f]]

\* lines 16-752: a node after the conversion.  The conversion reads the
\* attributes of the nodes and assigns to none; map, find, filter, some and
\* join return new values, and the arrays it pushes to (props, propsArr,
\* layoutProps, scssLines) are its own
NodeAfterConversion(node) == node

\* lines 16-752: the conversion runs to completion, or ends with the
\* TypeError raised on the way
Conversion ==
  /\ pc = "ready"
  /\ LET out == convertFigmaToMarkup(argNode, argRootClass, argDocument,
                                     variableIds, NewClassMap)
     IN  IF out.raised
           THEN /\ pc' = "error"
                /\ UNCHANGED <<classMap, jsx, scss, resolved>>
           ELSE /\ pc' = "done"
                /\ classMap' = out.classMap
                /\ jsx' = out.jsx
                /\ scss' = out.scss
                /\ resolved' = Resolutions(out.classMap, argNode, argDocument,
                                           variableIds)
  /\ argDocument' = NodeAfterConversion(argDocument)
  /\ argNode' = NodeAfterConversion(argNode)
  /\ UNCHANGED <<variableIds, argRootClass, svars, avars>>

Convert == Conversion /\ UNCHANGED hvars

Next ==
  \/ \E call \in Calls : Invoke(call.target, call.override)
  \/ Convert

Spec == Init /\ [][Next]_vars

(***************************************************************************)
(* Repeated invocations: a caller converts one node after another, and the *)
(* arguments and results of every call that returned are kept.             *)
(***************************************************************************)
\* the calls repeated: targets that share class names and targets that do
\* not, one of them with a bound variable and under another root class
RunCalls ==
  { [target |-> WithKids(VerticalRoot, <<TitleText("3:1")>>), override |-> ""],
    [target |-> WithKids(PlainRoot,
                         <<WithKids(Node("3:1", "Note", "TEXT") @@ [characters |-> "Hello"],
                                    <<Inner("4:1")>>)>>),
     override |-> ""],
    [target |-> WithKids(PlainRoot,
                         <<WithBound(Node("3:1", "Box", "FRAME") @@ Fills("black"),
                                     Bound("fills", "array", "V:1"))>>),
     override |-> "Promo Card"] }

\* lines 794-805, for a caller that calls again
InvokeAgain(target, override) ==
  /\ Len(runs) < MaxRuns
  /\ Invoke(target, override)

\* lines 16-752, with the call's arguments and results kept
ConvertAndKeep ==
  /\ Conversion
  /\ runs' = Append(runs, [node |-> argNode, rootClass |-> argRootClass,
                            document |-> argDocument, ids |-> variableIds,
                            jsx |-> jsx', scss |-> scss'])

\* lines 748-751: the call returns and the caller is free to call again
Return ==
  /\ pc = "done"
  /\ pc' = "idle"
  /\ UNCHANGED <<variableIds, argDocument, argNode, argRootClass, classMap, jsx, scss,
                 resolved, hvars, svars, avars>>

\* variableIds.json is written anew between two calls
RewriteIds ==
  /\ pc = "idle"
  /\ variableIds' \in IdMaps \ {variableIds}
  /\ UNCHANGED <<pc, argDocument, argNode, argRootClass, classMap, jsx, scss, resolved,
                 hvars, svars, avars>>

RunsNext ==
  \/ \E call \in RunCalls : InvokeAgain(call.target, call.override)
  \/ ConvertAndKeep
  \/ Return
  \/ RewriteIds

SpecRuns == Init /\ [][RunsNext]_vars

(***************************************************************************)
(* The all command of figma-export.js: the content step fetches the        *)
(* document from the API and writes the cache files, and the variables,    *)
(* icons and images steps each call fetchFigmaFile without forceUpdate.    *)
(* A document is identified by its version; the cache files live on disk   *)
(* from one run to the next.                                               *)
(***************************************************************************)
\* lines 73-78 and 118-131: what a writeFileSync of data leaves in a file
\* that held old: the data, or after a failure the old content (serialize
\* or open failed) or an unreadable file (the write failed midway)
WriteOutcomes(old, data) == {data, old, -1}

\* lines 62-83: the request fails, or it returns the remote document and
\* the binary cache is written, a failed write being only a warning
FetchFromApi ==
  {[ok |-> FALSE, data |-> 0, raw |-> rawFile]}
  \cup {[ok |-> TRUE, data |-> remote, raw |-> w] : w \in WriteOutcomes(rawFile, remote)}

\* lines 38-84: without forceUpdate the binary cache is read when it
\* exists, else the JSON cache when it exists; a read that throws and a
\* missing cache fall through to the API
fetchFigmaFile(forceUpdate) ==
  IF ~forceUpdate /\ rawFile > 0
    THEN {[ok |-> TRUE, data |-> rawFile, raw |-> rawFile]}
  ELSE IF ~forceUpdate /\ rawFile = 0 /\ jsonFile > 0
    THEN {[ok |-> TRUE, data |-> jsonFile, raw |-> rawFile]}
  ELSE FetchFromApi

\* the document is edited in Figma
EditRemote ==
  /\ aPc # "off"
  /\ remote < MaxVersion
  /\ remote' = remote + 1
  /\ UNCHANGED <<aPc, rawFile, jsonFile, fetched, used, cvars, hvars, svars>>

\* lines 699-703: a run of the all command begins
AllStart ==
  /\ aPc \in {"idle", "done", "failed"}
  /\ aPc' = "content"
  /\ fetched' = 0
  /\ used' = <<>>
  /\ UNCHANGED <<remote, rawFile, jsonFile, cvars, hvars, svars>>

\* lines 106-136: exportContent fetches with forceUpdate, writes the JSON
\* file and, when that fails, the binary file instead; a failure of the
\* request or of both writes ends the process
exportContent ==
  /\ aPc = "content"
  /\ \E r \in fetchFigmaFile(TRUE) :
       IF ~r.ok
         THEN /\ aPc' = "failed"
              /\ UNCHANGED <<rawFile, jsonFile, fetched>>
         ELSE /\ fetched' = r.data
              /\ \E j \in WriteOutcomes(jsonFile, r.data) :
                   /\ jsonFile' = j
                   /\ IF j = r.data
                        THEN rawFile' = r.raw /\ aPc' = "variables"
                        ELSE \E w \in WriteOutcomes(r.raw, r.data) :
                               /\ rawFile' = w
                               /\ aPc' = IF w = r.data THEN "variables" ELSE "failed"
  /\ UNCHANGED <<remote, used, cvars, hvars, svars>>

\* lines 704-706: the order of the steps after the content step
StepAfter(step) ==
  IF step = "variables" THEN "icons" ELSE IF step = "icons" THEN "images" ELSE "done"

\* lines 287, 445, 533: exportVariables, exportIcons and exportImages work
\* on what fetchFigmaFile({ forceUpdate: false }) returns
exportStep ==
  /\ aPc \in {"variables", "icons", "images"}
  /\ \E r \in fetchFigmaFile(FALSE) :
       IF ~r.ok
         THEN aPc' = "failed" /\ UNCHANGED <<rawFile, used>>
         ELSE /\ used' = Append(used, [step |-> aPc, data |-> r.data])
              /\ rawFile' = r.raw
              /\ aPc' = StepAfter(aPc)
  /\ UNCHANGED <<remote, jsonFile, fetched, cvars, hvars, svars>>

\* the cache files an earlier run can have left
AllInit ==
  /\ aPc = "idle"
  /\ remote = 1
  /\ rawFile \in {0, 1}
  /\ jsonFile \in {0, 1}
  /\ fetched = 0
  /\ used = <<>>
  /\ pc = "off"
  /\ variableIds = <<>>
  /\ argDocument = NullNode
  /\ argNode = NullNode
  /\ argRootClass = ""
  /\ classMap = <<>>
  /\ jsx = ""
  /\ scss = ""
  /\ resolved = <<>>
  /\ runs = <<>>
  /\ sName = "" /\ sOnce = "" /\ sTwice = "" /\ sPc = "off"

AllNext == EditRemote \/ AllStart \/ exportContent \/ exportStep

SpecAll == AllInit /\ [][AllNext]_vars

(***************************************************************************)
(* The sanitizer applied to bounded names, and applied again to its own    *)
(* result.                                                                 *)
(***************************************************************************)
NameChars == {"A", "b", "3", "_", "-", " ", "!"}

RECURSIVE StringsOfLen(_)
StringsOfLen(n) ==
  IF n = 0 THEN {""} ELSE {s \o c : s \in StringsOfLen(n - 1), c \in NameChars}

NameInputs == UNION {StringsOfLen(n) : n \in 0..MaxNameLen}

SanitizeInit ==
  /\ sName \in NameInputs
  /\ sOnce = ""
  /\ sTwice = ""
  /\ sPc = "input"
  /\ pc = "off"
  /\ variableIds = <<>>
  /\ argDocument = NullNode
  /\ argNode = NullNode
  /\ argRootClass = ""
  /\ classMap = <<>>
  /\ jsx = ""
  /\ scss = ""
  /\ resolved = <<>>
  /\ runs = <<>>
  /\ AllOff

SanitizeOnce ==
  /\ sPc = "input"
  /\ sOnce' = sanitize(sName)
  /\ sPc' = "once"
  /\ UNCHANGED <<sName, sTwice, cvars, hvars, avars>>

SanitizeAgain ==
  /\ sPc = "once"
  /\ sTwice' = sanitize(sOnce)
  /\ sPc' = "twice"
  /\ UNCHANGED <<sName, sOnce, cvars, hvars, avars>>

SanitizeNext == SanitizeOnce \/ SanitizeAgain

SpecSanitize == SanitizeInit /\ [][SanitizeNext]_vars

(***************************************************************************)
(* C9: sanitize(sanitize(x)) = sanitize(x): once the sanitizer has been    *)
(* applied to its own result, that second result equals the first.         *)
(***************************************************************************)
C9_SanitizeIdempotent == sPc = "twice" => sTwice = sOnce

\* a name with upper-case letters, foreign characters and separators has
\* been sanitized twice, and the first pass changed it
C9_Witness ==
  /\ sPc = "twice"
  /\ sName = "A !_"
  /\ sOnce = "a__"
  /\ sOnce # sName

(***************************************************************************)
(* C10 as amended: the sanitizer's result is lower-case, made only of     *)
(* characters of [a-z0-9_-], and never longer than the input; adjacent,    *)
(* leading and trailing separators are kept.                               *)
(***************************************************************************)
IsSeparator(c) == c \in {"_", "-"}

NoAdjacentSeparators(s) ==
  \A i \in 1..(Len(s) - 1) : ~(IsSeparator(CharAt(s, i)) /\ IsSeparator(CharAt(s, i + 1)))

NoEdgeSeparators(s) ==
  s # "" => ~IsSeparator(CharAt(s, 1)) /\ ~IsSeparator(CharAt(s, Len(s)))

Range(seq) == {seq[i] : i \in 1..Len(seq)}

\* the declarations of a property among resolved declarations
DeclsOf(props, property) == {d \in Range(props) : StartsWith(d, property \o ":")}

Done == pc = "done"

\* the text of s from the 1-based position i up to the next occurrence of stop
UpTo(s, i, stop) ==
  LET rest == SliceFrom(s, i - 1)
  IN  IF Occurrences(rest, stop) = {} THEN rest
      ELSE SubSeq(rest, 1, Min(Occurrences(rest, stop)) - 1)

ClassAttr == "className={styles."

ClassesInMarkup(markup) ==
  {UpTo(markup, i + Len(ClassAttr), "}") : i \in Occurrences(markup, ClassAttr)}

\* the class of the top-level rule
RootClassInScss(sheet) == IF sheet = "" THEN "" ELSE UpTo(sheet, 2, " {")

\* the positions at which a nested selector starts: after a line's two
\* spaces of indentation, or right after the top-level rule's brace
NestedSelectorStarts(sheet) ==
  {i + 3 : i \in Occurrences(sheet, "\n  &") \cup Occurrences(sheet, "\n  .")
               \cup Occurrences(sheet, "{  &") \cup Occurrences(sheet, "{  .")}

ClassOfSelector(selector, root) ==
  IF CharAt(selector, 1) = "&" THEN root \o SliceFrom(selector, 1)
  ELSE SliceFrom(selector, 1)

NestedClassesInScss(sheet) ==
  {ClassOfSelector(UpTo(sheet, i, " {"), RootClassInScss(sheet)) :
     i \in NestedSelectorStarts(sheet)}

ClassesInScss(sheet) ==
  IF sheet = "" THEN {} ELSE {RootClassInScss(sheet)} \cup NestedClassesInScss(sheet)

\* the body of the nested rule of a class, "" when it has none
BodyInScss(sheet, cls) ==
  LET starts == {i \in NestedSelectorStarts(sheet) :
                   ClassOfSelector(UpTo(sheet, i, " {"), RootClassInScss(sheet)) = cls}
  IN  IF starts = {} THEN ""
      ELSE LET i == Min(starts)
               open == i + Len(UpTo(sheet, i, " {")) + 2
           IN  UpTo(sheet, open, "}")

(***************************************************************************)
(* C5: Scenario A.  For the root FRAME "Card" with layoutMode VERTICAL and *)
(* itemSpacing 8 and one TEXT child "Title" with characters "Hi" and an    *)
(* opaque black fill, the markup is a container of class card around a     *)
(* text leaf of class card_title holding "Hi", the .card rule holds        *)
(* display: flex; flex-direction: column; gap: 8px; in that order and the  *)
(* only nested rule is &_title with the declaration color: #000000;.       *)
(***************************************************************************)
ScenarioA == WithKids(VerticalRoot, <<TitleText("3:1")>>)

IsScenarioA == Done /\ argNode = ScenarioA /\ argRootClass = ""

C5_ScenarioA ==
  IsScenarioA =>
    /\ jsx = "<div className={styles.card}>\n"
             \o "  <span className={styles.card_title}>Hi</span>\n"
             \o "</div>"
    /\ scss = ".card {display: flex; flex-direction: column; gap: 8px;\n"
              \o "  &_title {color: #000000;}\n"
              \o "}"

C5_Witness ==
  /\ IsScenarioA
  /\ ClassesInScss(scss) = {"card", "card_title"}
  /\ BodyInScss(scss, "card_title") = "color: #000000;"

(***************************************************************************)
(* C6: for every node resolved with isFixed true, constraints              *)
(* RIGHT / BOTTOM and known node and parent geometry, the declarations     *)
(* begin position: fixed; right: R px; bottom: B px; with                  *)
(* R = parent.x + parent.width - (node.x + node.width) and                 *)
(* B = parent.y + parent.height - (node.y + node.height); 10px from both   *)
(* edges gives position: fixed; right: 10px; bottom: 10px;.                *)
(***************************************************************************)
IsFixedRightBottom(r) ==
  /\ Has(r.node, "isFixed") /\ r.node.isFixed
  /\ Has(r.node, "constraints")
  /\ r.node.constraints = [horizontal |-> "RIGHT", vertical |-> "BOTTOM"]
  /\ Has(r.node, "absoluteBoundingBox")
  /\ ~IsNull(r.parent) /\ Has(r.parent, "absoluteBoundingBox")

\* a pixel length written out: whole pixels, or pixels and thousandths
PixelText(v) ==
  IF v % 1000 = 0 THEN ToString(v \div 1000) \o "px"
  ELSE ToString(v \div 1000) \o "." \o Pad3(v % 1000) \o "px"

RightOf(r) ==
  (r.parent.absoluteBoundingBox.x + r.parent.absoluteBoundingBox.width)
  - (r.node.absoluteBoundingBox.x + r.node.absoluteBoundingBox.width)

BottomOf(r) ==
  (r.parent.absoluteBoundingBox.y + r.parent.absoluteBoundingBox.height)
  - (r.node.absoluteBoundingBox.y + r.node.absoluteBoundingBox.height)

C6_FixedRightBottom ==
  \A i \in 1..Len(resolved) :
    IsFixedRightBottom(resolved[i]) =>
      /\ Len(resolved[i].props) >= 3
      /\ SubSeq(resolved[i].props, 1, 3)
           = << "position: fixed;",
                "right: " \o PixelText(RightOf(resolved[i])) \o ";",
                "bottom: " \o PixelText(BottomOf(resolved[i])) \o ";" >>
      /\ StartsWith(resolved[i].rule,
                    "position: fixed; right: " \o PixelText(RightOf(resolved[i]))
                    \o "; bottom: " \o PixelText(BottomOf(resolved[i])) \o ";")
      /\ (RightOf(resolved[i]) = 10000 /\ BottomOf(resolved[i]) = 10000
            => StartsWith(BodyInScss(scss, resolved[i].cls),
                          "position: fixed; right: 10px; bottom: 10px;"))

\* a fixed child 10px from the right and bottom edges of its parent has
\* been resolved, and another one at a fractional distance
C6_Witness ==
  /\ Done
  /\ \E i \in 1..Len(resolved) :
       /\ IsFixedRightBottom(resolved[i])
       /\ RightOf(resolved[i]) = 10000 /\ BottomOf(resolved[i]) = 10000
       /\ Includes(scss, "{position: fixed; right: 10px; bottom: 10px;}")

(***************************************************************************)
(* C8: a text node whose color, font size, font weight, font family and    *)
(* letter spacing all resolve to the default table's values emits no       *)
(* color, font-size, font-weight, font-family or letter-spacing            *)
(* declaration.                                                            *)
(***************************************************************************)
\* the id bound to an attribute, "" when there is none
BoundIdOf(node, attr) ==
  IF Has(node, "boundVariables") /\ Has(node.boundVariables, attr)
     /\ Len(node.boundVariables[attr].items) > 0
     /\ Has(node.boundVariables[attr].items[1], "id")
    THEN node.boundVariables[attr].items[1].id
    ELSE ""

\* the names the identifier map gives an id
NamesOfId(id) == {variableIds[i].name : i \in {j \in 1..Len(variableIds) : variableIds[j].id = id}}

BoundToName(node, attr, name) ==
  BoundIdOf(node, attr) # "" /\ NamesOfId(BoundIdOf(node, attr)) = {name}

IsAllDefaultText(node) ==
  /\ node.type = "TEXT"
  /\ ~FirstFillHidden(node)
  /\ BoundToName(node, "fills", "text-primary")
  /\ BoundToName(node, "fontSize", "font-size-default")
  /\ BoundToName(node, "fontStyle", "typeface-regular-weight")
  /\ BoundToName(node, "fontFamily", "typeface-primary")
  /\ Has(node, "style") /\ Has(node.style, "letterSpacing") /\ node.style.letterSpacing = 0

DefaultedProperties == {"color", "font-size", "font-weight", "font-family", "letter-spacing"}

C8_DefaultSuppression ==
  \A i \in 1..Len(resolved) :
    IsAllDefaultText(resolved[i].node) =>
      /\ \A p \in DefaultedProperties : DeclsOf(resolved[i].props, p) = {}
      /\ \A p \in DefaultedProperties :
           ~Includes(BodyInScss(scss, resolved[i].cls), p \o ":")

\* an all-default text node was resolved and its rule is empty, so the
\* stylesheet has no rule for it
C8_Witness ==
  /\ Done
  /\ \E i \in 1..Len(resolved) :
       /\ IsAllDefaultText(resolved[i].node)
       /\ resolved[i].props = <<>>
       /\ resolved[i].cls \notin ClassesInScss(scss)
       /\ resolved[i].cls \in ClassesInMarkup(jsx)

(***************************************************************************)
(* C4 as amended: a fill with opacity below 1 is written as                *)
(* rgba(R, G, B, A) with R, G, B the channels scaled to 0..255 and rounded *)
(* and A written as formatNum writes it: with three decimals when it has a *)
(* fractional part and as a bare integer otherwise, never as a hex string; *)
(* opacity 0.5 over {r: 1, g: 0, b: 0} gives rgba(255, 0, 0, 0.500).       *)
(***************************************************************************)
\* Math.round(channel * 255): the integer within a half of the product
Channel(v) == CHOOSE n \in 0..255 : 2000 * n - 1000 <= 510 * v /\ 510 * v < 2000 * n + 1000

Digit(n) == ToString(n % 10)

AlphaThreeDecimals(a) ==
  IF a % 1000 = 0 THEN ToString(a \div 1000)
  ELSE ToString(a \div 1000) \o "." \o Digit(a \div 100) \o Digit(a \div 10) \o Digit(a)

\* the alpha with two decimals, rounded
AlphaTwoDecimals(a) ==
  LET h == (a + 5) \div 10
  IN  ToString(h \div 100) \o "." \o Digit(h \div 10) \o Digit(h)

RgbaText(fill, alphaText) ==
  "rgba(" \o ToString(Channel(fill.color.r)) \o ", " \o ToString(Channel(fill.color.g))
  \o ", " \o ToString(Channel(fill.color.b)) \o ", " \o alphaText \o ")"

FillProperty(node) == IF node.type = "TEXT" THEN "color" ELSE "background"

\* the node's first fill has a color and an opacity below 1
HasFillBelowOne(node) ==
  /\ node.type # "INSTANCE"
  /\ FirstHasColor(node, "fills")
  /\ Has(node.fills[1], "opacity")
  /\ node.fills[1].opacity < 1000

IsVarOrImage(decl) ==
  Includes(decl, ": var(--") \/ decl = "background: url(/img/image.png);"

C4_AlphaColor ==
  \A i \in 1..Len(resolved) :
    LET node == resolved[i].node
        decl == FillProperty(node) \o ": "
                \o RgbaText(node.fills[1], AlphaThreeDecimals(node.fills[1].opacity)) \o ";"
    IN  HasFillBelowOne(node) =>
          /\ \A d \in DeclsOf(resolved[i].props, FillProperty(node)) :
               d = decl \/ IsVarOrImage(d)
          /\ (~Has(node, "boundVariables") /\ ~FirstFillHidden(node)
                => /\ decl \in Range(resolved[i].props)
                   /\ Includes(scss, decl))
          /\ (node.fills[1] = HalfRed =>
                decl = FillProperty(node) \o ": rgba(255, 0, 0, 0.500);")

\* a half-transparent red background without a bound variable reached the
\* stylesheet
C4_Witness ==
  /\ Done
  /\ Includes(scss, "background: rgba(255, 0, 0, 0.500);")
  /\ \E i \in 1..Len(resolved) :
       /\ HasFillBelowOne(resolved[i].node)
       /\ ~Has(resolved[i].node, "boundVariables")

\* C4 as stated: the alpha is written with two decimals, 0.5 as 0.50
C4_AsStated ==
  \A i \in 1..Len(resolved) :
    LET node == resolved[i].node
        decl == FillProperty(node) \o ": "
                \o RgbaText(node.fills[1], AlphaTwoDecimals(node.fills[1].opacity)) \o ";"
    IN  HasFillBelowOne(node) /\ ~Has(node, "boundVariables") /\ ~FirstFillHidden(node)
          => /\ decl \in Range(resolved[i].props)
             /\ (node.fills[1] = HalfRed =>
                   decl = FillProperty(node) \o ": rgba(255, 0, 0, 0.50);")

(***************************************************************************)
(* C3 as stated: for text color, font weight, font family, font size,      *)
(* background, border and shadow color, a node that has both a             *)
(* bound-variable reference the identifier map resolves (one reference or  *)
(* an array of them) and a literal value gets a declaration that uses      *)
(* var(--name), and no declaration of that property carries the literal.   *)
(***************************************************************************)
Resolvable(node, attr) ==
  BoundIdOf(node, attr) # "" /\ NamesOfId(BoundIdOf(node, attr)) # {}

HasStyleField(node, f) == Has(node, "style") /\ Has(node.style, f)

HasShadowLiteral(node) ==
  /\ Has(node, "effects")
  /\ \E k \in 1..Len(node.effects) :
       /\ Has(node.effects[k], "type") /\ node.effects[k].type = "DROP_SHADOW"
       /\ ~(Has(node.effects[k], "visible") /\ node.effects[k].visible = FALSE)
       /\ Has(node.effects[k], "color")

\* the properties for which the node has both a resolvable reference and a
\* literal value
BoundAndLiteral(node) ==
  {p \in {"color", "font-weight", "font-family", "font-size", "background", "border",
          "box-shadow"} :
     \/ p = "color" /\ node.type = "TEXT" /\ Resolvable(node, "fills")
          /\ FirstHasColor(node, "fills")
     \/ p = "font-weight" /\ node.type = "TEXT" /\ Resolvable(node, "fontStyle")
          /\ HasStyleField(node, "fontStyle")
     \/ p = "font-family" /\ node.type = "TEXT" /\ Resolvable(node, "fontFamily")
          /\ HasStyleField(node, "fontFamily")
     \/ p = "font-size" /\ node.type = "TEXT" /\ Resolvable(node, "fontSize")
          /\ HasStyleField(node, "fontSize")
     \/ p = "background" /\ node.type # "TEXT" /\ Resolvable(node, "fills")
          /\ FirstHasColor(node, "fills")
     \/ p = "border" /\ Resolvable(node, "strokes") /\ FirstHasColor(node, "strokes")
     \/ p = "box-shadow" /\ Resolvable(node, "effects") /\ HasShadowLiteral(node)}

C3_AsStated ==
  \A i \in 1..Len(resolved) :
    \A p \in BoundAndLiteral(resolved[i].node) :
      \A d \in DeclsOf(resolved[i].props, p) :
        d = "background: url(/img/image.png);" \/ Includes(d, "var(--")

(***************************************************************************)
(* C7 as amended: a visited non-root INSTANCE node whose master component  *)
(* is not an icon component is rendered as a self-closing component        *)
(* reference named by Pascal-casing the node name, with a class attribute; *)
(* an instance of an icon component is rendered as                         *)
(* <Icon name="sanitized name" /> without a class attribute; a string      *)
(* property whose value is "true" or "false" in any letter case becomes a  *)
(* boolean prop, so Active with value "True" gives active={true}; when     *)
(* the instance is the first node registered under its class, its style    *)
(* rule holds only positioning and sizing declarations; and an INSTANCE    *)
(* node below another non-root INSTANCE node is not visited: it is neither *)
(* emitted nor registered.                                                 *)
(***************************************************************************)
\* the INSTANCE nodes the walk visits below the root; it does not descend
\* into them
RECURSIVE VisitedInstances(_, _)
VisitedInstances(node, isRoot) ==
  IF node.type = "INSTANCE" /\ ~isRoot THEN {node}
  ELSE UNION {VisitedInstances(ChildrenOf(node)[k], FALSE) : k \in 1..Len(ChildrenOf(node))}

\* the INSTANCE nodes below the root
InstancesBelow(root) ==
  LET visits == PreOrder(root, NullNode)
  IN  {visits[k].node : k \in {j \in 1..Len(visits) :
                                 /\ visits[j].node.type = "INSTANCE"
                                 /\ visits[j].node.id # root.id}}

\* the class of the markup's outermost element
RootClassInMarkup(markup) == UpTo(markup, Len("<div " \o ClassAttr) + 1, "}")

ClassOfChild(node) == RootClassInMarkup(jsx) \o "_" \o sanitize(node.name)

IsIconInstance(node) ==
  /\ node.type = "INSTANCE"
  /\ isIconComponent(findMasterComponent(node, buildIdMap(argDocument)),
                     buildParentMap(argDocument))

\* the self-closing elements of the instance's component in the markup:
\* the text from the tag's name up to "/>"
ReferencesOf(node) ==
  LET tagOpen == "<" \o toPascalCase(node.name)
  IN  {el \in {UpTo(jsx, k, "/>") : k \in Occurrences(jsx, tagOpen)} :
         /\ Len(el) > Len(tagOpen)
         /\ CharAt(el, Len(tagOpen) + 1) \in {" ", "\n"}
         /\ ~Includes(SliceFrom(el, 1), "<")
         /\ ~Includes(el, ">")}

HasClassAttr(el, node) == Includes(el, ClassAttr \o ClassOfChild(node) \o "}")

\* the string properties of the instance that read as booleans: [key, value]
BooleanStrings(node) ==
  IF ~Has(node, "componentProperties") THEN {}
  ELSE {node.componentProperties[k] : k \in
          {j \in 1..Len(node.componentProperties) :
             LET vo == node.componentProperties[j].valueObj
             IN  /\ Has(vo, "value") /\ vo.value.t = "string"
                 /\ toLowerCase(vo.value.v) \in {"true", "false"}}}

PositioningAndSizing ==
  {"position", "left", "right", "top", "bottom", "width", "height", "flex-grow",
   "align-self"}

PropertyOf(decl) == UpTo(decl, 1, ":")

IsRenderedAsReference(node) ==
  \E el \in ReferencesOf(node) :
    /\ HasClassAttr(el, node)
    /\ \A e \in BooleanStrings(node) :
         Includes(el, PropName(e.key) \o "={" \o toLowerCase(e.valueObj.value.v) \o "}")

RegisteredClasses == {classMap[i].cls : i \in 1..Len(classMap)}

\* the strict ancestors of a node inside the converted subtree, the root
\* excluded
RECURSIVE InnerAncestors(_, _)
InnerAncestors(node, parentMap) ==
  LET parent == MapGet(parentMap, node.id)
  IN  IF IsNull(parent) \/ parent.id = argNode.id \/ node.id = argNode.id THEN {}
      ELSE {parent} \cup InnerAncestors(parent, parentMap)

IsLeafElement(node) ==
  \/ node.type = "IMAGE"
  \/ (node.type = "TEXT" /\ Has(node, "characters") /\ node.characters # "")

IsUnrendered(node) ==
  \/ IsIconInstance(node)
  \/ \E a \in InnerAncestors(node, buildParentMap(argDocument)) : IsLeafElement(a)

SameArguments(a, b) ==
  /\ a.node = b.node
  /\ a.rootClass = b.rootClass
  /\ a.document = b.document
  /\ a.ids = b.ids

C11_AsStated == pc # "error"

(***************************************************************************)
(* C12: when several visited nodes produce the same class name, the        *)
(* registry has one entry for the name, the later nodes reuse it, and the  *)
(* rule of the name is resolved from the node of the entry.  As stated,    *)
(* that node is the one the pre-order walk visits first, a container       *)
(* before its descendants.  In the code a component instance below the     *)
(* root is registered when it is visited and every other node after its    *)
(* children were walked, so the entry belongs to the first node in that    *)
(* order: between a container and a descendant of the same class name it   *)
(* is the descendant.                                                      *)
(***************************************************************************)
\* the nodes the walk visits, a node before its children; the walk does not
\* descend into a component instance below the root
RECURSIVE VisitOrder(_, _), VisitOrderOfAll(_)
VisitOrder(node, isRoot) ==
  IF node.type = "INSTANCE" /\ ~isRoot THEN <<node>>
  ELSE <<node>> \o VisitOrderOfAll(ChildrenOf(node))

VisitOrderOfAll(children) ==
  IF children = <<>> THEN <<>>
  ELSE VisitOrder(Head(children), FALSE) \o VisitOrderOfAll(Tail(children))

\* the visited nodes in the order of their classMap.has test: a node after
\* the nodes below it
RECURSIVE CompletionOrder(_, _), CompletionOrderOfAll(_)
CompletionOrder(node, isRoot) ==
  IF node.type = "INSTANCE" /\ ~isRoot THEN <<node>>
  ELSE CompletionOrderOfAll(ChildrenOf(node)) \o <<node>>

CompletionOrderOfAll(children) ==
  IF children = <<>> THEN <<>>
  ELSE CompletionOrder(Head(children), FALSE) \o CompletionOrderOfAll(Tail(children))

ClassOfVisited(node) ==
  NodeClass(node, node.id = argNode.id, RootClass(argNode, argRootClass))

\* the first node of an order that produces the class name
FirstOfClass(order, cls) ==
  order[Min({k \in 1..Len(order) : ClassOfVisited(order[k]) = cls})]

\* the text of the stylesheet that the rule of a node under a class name is
RuleTextOf(node, cls) ==
  LET parent == MapGet(buildParentMap(argDocument), node.id)
      rule == WithRelative(node, nodeToScss(node, ParentLayoutMode(parent), parent,
                                            variableIds))
  IN  IF rule = "" THEN ""
      ELSE "  " \o NestedSelector(cls, RootClass(argNode, argRootClass)) \o " {"
           \o IndentNewlines(rule)

\* the registry maps every produced class name, once, to the first node of
\* the order, and the stylesheet has the rule of that node
FirstOfOrderWins(order) ==
  /\ {classMap[i].cls : i \in 1..Len(classMap)}
       = {ClassOfVisited(order[k]) : k \in 1..Len(order)}
  /\ \A i, j \in 1..Len(classMap) : classMap[i].cls = classMap[j].cls => i = j
  /\ \A i \in 1..Len(classMap) :
       LET first == FirstOfClass(order, classMap[i].cls)
       IN  /\ classMap[i].node = first
           /\ resolved[i].node = first
           /\ first.id # argNode.id => Includes(scss, RuleTextOf(first, classMap[i].cls))

RECURSIVE Ascending(_)
Ascending(S) == IF S = {} THEN <<>> ELSE <<Min(S)>> \o Ascending(S \ {Min(S)})

\* the class names of the nested rules, in the order of the text
NestedClassSeq(sheet) ==
  LET starts == Ascending(NestedSelectorStarts(sheet))
  IN  [k \in 1..Len(starts) |->
         ClassOfSelector(UpTo(sheet, starts[k], " {"), RootClassInScss(sheet))]

\* the class names of an order of nodes that get a nested rule: the first
\* node of each class name, when it is not the root and has declarations
RECURSIVE RuledClasses(_, _)
RuledClasses(order, k) ==
  IF k > Len(order) THEN <<>>
  ELSE LET cls == ClassOfVisited(order[k])
       IN  (IF /\ FirstOfClass(order, cls) = order[k]
               /\ \A j \in 1..(k - 1) : ClassOfVisited(order[j]) # cls
               /\ order[k].id # argNode.id
               /\ RuleTextOf(order[k], cls) # ""
              THEN <<cls>> ELSE <<>>)
           \o RuledClasses(order, k + 1)

RootOpen == "<div className={styles." \o RootClass(argNode, argRootClass) \o "}>"

EndsWith(s, p) == Len(p) <= Len(s) /\ SubSeq(s, Len(s) - Len(p) + 1, Len(s)) = p

\* the positions where an element one level below the root opens
ChildStarts(markup) ==
  Ascending({i \in Occurrences(markup, "\n  <") : CharAt(markup, i + 4) # "/"})

\* the markup from the k-th child element up to the next one
ChildSegment(markup, k) ==
  LET starts == ChildStarts(markup)
  IN  SubSeq(markup, starts[k] + 3,
             IF k < Len(starts) THEN starts[k + 1] - 1 ELSE Len(markup) - Len("\n</div>"))

IsElementOf(segment, child) ==
  IF IsIconInstance(child)
    THEN segment = "<Icon name=\"" \o sanitize(child.name) \o "\" />"
    ELSE /\ Includes(segment, ClassAttr \o ClassOfVisited(child) \o "}")
         /\ StartsWith(segment,
                       IF child.type = "INSTANCE" THEN "<" \o toPascalCase(child.name)
                       ELSE "<" \o getTag(child) \o " ")

C14_RootIsContainer ==
  Done =>
    LET kids == ChildrenOf(argNode)
    IN  /\ StartsWith(jsx, RootOpen)
        /\ EndsWith(jsx, "</div>")
        /\ kids = <<>> => jsx = RootOpen \o "</div>"
        /\ kids # <<>> => EndsWith(jsx, "\n</div>")
        /\ Len(ChildStarts(jsx)) = Len(kids)
        /\ \A k \in 1..Len(kids) : IsElementOf(ChildSegment(jsx, k), kids[k])

\* a root that is a component instance with children
C14_Witness ==
  /\ Done
  /\ argNode.type = "INSTANCE"
  /\ argNode.componentId = "1:3"
  /\ jsx = "<div className={styles.button}>\n"
           \o "  <span className={styles.button_title}>Hi</span>\n"
           \o "  <Chip className={styles.button_chip} />\n</div>"

RECURSIVE Unbound(_)
Unbound(node) ==
  [f \in DOMAIN node \ {"boundVariables"} |->
     IF f = "children" THEN [k \in 1..Len(node.children) |-> Unbound(node.children[k])]
     ELSE node[f]]

HasBinding(node) ==
  Has(node, "boundVariables") /\ \E attr \in DOMAIN node.boundVariables :
                                    BoundIdOf(node, attr) # ""

C17_AsStated ==
  \A i \in 1..Len(used) : used[i].data = fetched

(***************************************************************************)
(* C18 as stated: default suppression drops a declaration only when its    *)
(* value is exactly the default of its property; a declaration whose       *)
(* value differs from the default but contains it, such as a non-zero      *)
(* letter spacing that ends in 0px, is kept.                               *)
(***************************************************************************)
ExactDefaults ==
  {defaultVars[k].key \o ": " \o defaultVars[k].value \o ";" : k \in 1..Len(defaultVars)}

C18_AsStated ==
  Done =>
    \A i \in 1..Len(resolved) :
      resolved[i].node.type = "TEXT" =>
        \A d \in Range(TextProps(resolved[i].node, variableIds)) :
          d \notin Range(resolved[i].props) => d \in ExactDefaults

(***************************************************************************)
(* C19: for every registered node, the rule the stylesheet has for it      *)
(* starts with position: relative exactly when the node has a child with   *)
(* layoutPositioning ABSOLUTE or isFixed true and its own declarations set *)
(* no position; and no rule has two position declarations.                 *)
(***************************************************************************)
HasPositionedChild(node) ==
  \E k \in 1..Len(ChildrenOf(node)) : IsPositioned(node.children[k])

\* the text the stylesheet has after the selector of the i-th entry
EmittedRule(i) ==
  IF resolved[i].isRoot
    THEN LET text == UpTo(scss, Len("." \o resolved[i].cls \o " {") + 1, "\n")
         IN  IF text = "" \/ CharAt(text, 1) \in {" ", "}"} THEN "" ELSE text
    ELSE BodyInScss(scss, resolved[i].cls)

\* the positions of a text where a declaration of the property position
\* begins
PositionDecls(text) ==
  {k \in Occurrences(text, "position:") : k = 1 \/ CharAt(text, k - 1) \in {" ", "\n"}}

C19_RelativeInjected ==
  Done =>
    \A i \in 1..Len(resolved) :
      /\ StartsWith(EmittedRule(i), "position: relative")
           <=> (/\ HasPositionedChild(resolved[i].node)
                /\ DeclsOf(resolved[i].props, "position") = {})
      /\ Cardinality(PositionDecls(EmittedRule(i))) <= 1
      /\ Cardinality(PositionDecls(resolved[i].rule)) <= 1

\* a fixed group with a fixed child keeps its own position, and in the same
\* stylesheet the root above them gets position: relative
C19_Witness ==
  /\ Done
  /\ \E i, j \in 1..Len(resolved) :
       /\ resolved[i].node.name = "Layer"
       /\ HasPositionedChild(resolved[i].node)
       /\ StartsWith(EmittedRule(i), "position: fixed;")
       /\ resolved[j].isRoot
       /\ StartsWith(EmittedRule(j), "position: relative; ")

(***************************************************************************)
(* C20: the resolver emits at most one position declaration for a node:    *)
(* fixed when isFixed is true, also when layoutPositioning is ABSOLUTE,    *)
(* otherwise absolute when layoutPositioning is ABSOLUTE.  When the node   *)
(* is positioned and the geometry of the node and of the parent handed to  *)
(* the resolver are known, it emits exactly one horizontal offset (right   *)
(* for RIGHT, otherwise left: half the difference of the widths for        *)
(* CENTER, node.x - parent.x for SCALE, LEFT or no constraint) and exactly *)
(* one vertical offset by the same rule; otherwise it emits no offset.     *)
(***************************************************************************)
\* the declarations of a list whose property is one of the given ones, in
\* order and with repetitions
DeclsAmong(props, properties) ==
  SelectSeq(props, LAMBDA d : \E q \in properties : StartsWith(d, q \o ":"))

ConstraintOf(node, axis) ==
  IF Has(node, "constraints") /\ Has(node.constraints, axis) THEN node.constraints[axis]
  ELSE ""

ExpectedPosition(node) ==
  IF Has(node, "isFixed") /\ node.isFixed = TRUE THEN <<"position: fixed;">>
  ELSE IF Has(node, "layoutPositioning") /\ node.layoutPositioning = "ABSOLUTE"
    THEN <<"position: absolute;">>
  ELSE <<>>

ExpectedHorizontal(node, parent) ==
  LET box == node.absoluteBoundingBox
      parentBox == parent.absoluteBoundingBox
  IN  IF ConstraintOf(node, "horizontal") = "RIGHT"
        THEN "right: " \o formatNum((parentBox.x + parentBox.width) - (box.x + box.width))
             \o "px;"
      ELSE IF ConstraintOf(node, "horizontal") = "CENTER"
        THEN "left: " \o formatNum((parentBox.width - box.width) \div 2) \o "px;"
      ELSE "left: " \o formatNum(box.x - parentBox.x) \o "px;"

ExpectedVertical(node, parent) ==
  LET box == node.absoluteBoundingBox
      parentBox == parent.absoluteBoundingBox
  IN  IF ConstraintOf(node, "vertical") = "BOTTOM"
        THEN "bottom: " \o formatNum((parentBox.y + parentBox.height) - (box.y + box.height))
             \o "px;"
      ELSE IF ConstraintOf(node, "vertical") = "CENTER"
        THEN "top: " \o formatNum((parentBox.height - box.height) \div 2) \o "px;"
      ELSE "top: " \o formatNum(box.y - parentBox.y) \o "px;"

GeometryKnown(node, parent) ==
  /\ Has(node, "absoluteBoundingBox")
  /\ ~IsNull(parent)
  /\ Has(parent, "absoluteBoundingBox")

C20_PositionAndOffsets ==
  Done =>
    \A i \in 1..Len(resolved) :
      LET node == resolved[i].node
          parent == resolved[i].parent
          props == resolved[i].props
      IN  /\ DeclsAmong(props, {"position"}) = ExpectedPosition(node)
          /\ IF ExpectedPosition(node) # <<>> /\ GeometryKnown(node, parent)
               THEN /\ DeclsAmong(props, {"left", "right"})
                         = <<ExpectedHorizontal(node, parent)>>
                    /\ DeclsAmong(props, {"top", "bottom"})
                         = <<ExpectedVertical(node, parent)>>
               ELSE DeclsAmong(props, {"left", "right", "top", "bottom"}) = <<>>

\* a node that is fixed and absolute at once, centred in a parent of 200 by
\* 100: one position and the two offsets of the centre
C20_Witness ==
  /\ Done
  /\ \E i \in 1..Len(resolved) :
       /\ ExpectedPosition(resolved[i].node) = <<"position: fixed;">>
       /\ Has(resolved[i].node, "layoutPositioning")
       /\ resolved[i].node.layoutPositioning = "ABSOLUTE"
       /\ ConstraintOf(resolved[i].node, "horizontal") = "CENTER"
       /\ DeclsAmong(resolved[i].props, {"position", "left", "right", "top", "bottom"})
            = <<"position: fixed;", "left: 60px;", "top: 25px;">>
       /\ Includes(EmittedRule(i), "position: fixed; left: 60px; top: 25px;")

(***************************************************************************)
(* C21: no node below a component instance that is not the root appears    *)
(* in the class registry, and its class name appears in the registry, the  *)
(* markup or the stylesheet only when a visited node produces the same     *)
(* class name; the rule of such a name is the rule of the visited node.    *)
(***************************************************************************)
RECURSIVE Descendants(_)
Descendants(node) ==
  UNION {{node.children[k]} \cup Descendants(node.children[k]) :
           k \in 1..Len(ChildrenOf(node))}

\* the nodes below the component instances under the root
BelowInstances == UNION {Descendants(inst) : inst \in InstancesBelow(argNode)}

VisitedClasses ==
  {ClassOfVisited(VisitOrder(argNode, TRUE)[k]) : k \in 1..Len(VisitOrder(argNode, TRUE))}

C21_InstanceIsTerminal ==
  Done =>
    \A d \in BelowInstances :
      /\ \A i \in 1..Len(classMap) : classMap[i].node # d /\ classMap[i].node.id # d.id
      /\ ClassOfVisited(d) \in RegisteredClasses \cup ClassesInMarkup(jsx)
                                \cup ClassesInScss(scss)
           => ClassOfVisited(d) \in VisitedClasses

\* a text below an instance and a text beside the instance share a class
\* name: the registry and the rule are those of the text beside it
C21_Witness ==
  /\ Done
  /\ \E d \in BelowInstances :
       /\ d.type = "TEXT"
       /\ \E i \in 1..Len(resolved) :
            /\ resolved[i].cls = ClassOfVisited(d)
            /\ resolved[i].node.id = "3:2"
            /\ resolved[i].node.characters = "Yo"
            /\ BodyInScss(scss, resolved[i].cls) = "color: rgba(255, 0, 0, 0.500);"
  /\ ~Includes(jsx, ">Hi<")
  /\ Includes(jsx, ">Yo<")

(***************************************************************************)
(* C22: for every INSTANCE node, whatever fills, strokes, effects,         *)
(* opacity, corner radius, overflow, layout mode or text attributes it     *)
(* has, the rule consists only of position, left, right, top, bottom,      *)
(* width, height, flex-grow, flex-shrink and align-self declarations.      *)
(***************************************************************************)
InstanceProperties ==
  {"position", "left", "right", "top", "bottom", "width", "height", "flex-grow",
   "flex-shrink", "align-self"}

\* the word that ends at position k of a text
RECURSIVE WordEndingAt(_, _)
WordEndingAt(text, k) ==
  IF k = 0 \/ CharAt(text, k) \in {" ", "\n", ";"} THEN ""
  ELSE WordEndingAt(text, k - 1) \o CharAt(text, k)

\* the property names of the declarations of a rule
PropertyNamesIn(text) == {WordEndingAt(text, k - 1) : k \in Occurrences(text, ":")}

HasStyleAttributes(node) ==
  \A f \in {"fills", "strokes", "effects", "opacity", "cornerRadius", "clipsContent",
             "layoutMode", "style", "characters"} : Has(node, f)

C22_InstanceOnlyPlacement ==
  Done =>
    \A i \in 1..Len(resolved) :
      resolved[i].node.type = "INSTANCE" =>
        /\ PropertyNamesIn(EmittedRule(i)) \subseteq InstanceProperties
        /\ PropertyNamesIn(resolved[i].rule) \subseteq InstanceProperties
        /\ \A d \in Range(resolved[i].props) :
             PropertyNamesIn(d) \subseteq InstanceProperties

\* an instance with fills, strokes, effects, opacity, radius, overflow,
\* layout mode and text attributes: its rule is its position, offsets and
\* width
C22_Witness ==
  /\ Done
  /\ \E i \in 1..Len(resolved) :
       /\ resolved[i].node.type = "INSTANCE"
       /\ ~resolved[i].isRoot
       /\ HasStyleAttributes(resolved[i].node)
       /\ EmittedRule(i) = "position: absolute; right: 110px; bottom: 40px; width: 80px;"

(***************************************************************************)
(* C23 as stated: in each rendered drop shadow, every one of the tokens x  *)
(* offset, y offset, blur and spread whose value is zero is left out and   *)
(* every other token is present, so that no entry has a 0px token.         *)
(***************************************************************************)
\* a token of a shadow, "" when its value is zero or absent
TokenUnlessZero(text) == IF text = "0" THEN "" ELSE text \o "px "

ShadowWithoutZeros(e, shadowVarId) ==
  TokenUnlessZero(ShadowOffset(e, "x")) \o TokenUnlessZero(ShadowOffset(e, "y"))
  \o TokenUnlessZero(ShadowNum(e, "radius")) \o TokenUnlessZero(ShadowNum(e, "spread"))
  \o ShadowColor(e, shadowVarId, variableIds)

C23_AsStated ==
  Done =>
    \A i \in 1..Len(resolved) :
      LET node == resolved[i].node
      IN  (node.type # "INSTANCE" /\ Has(node, "effects")) =>
            LET valid == SelectSeq(node.effects,
                                   LAMBDA e : IsValidShadow(e, ShadowVarId(node), variableIds))
            IN  valid # <<>> =>
                  DeclsOf(resolved[i].props, "box-shadow")
                    = {"box-shadow: "
                       \o Join([k \in 1..Len(valid) |->
                                  ShadowWithoutZeros(valid[k], ShadowVarId(node))], ", ")
                       \o ";"}

(***************************************************************************)
(* C24 as stated: a node that is not a text gets no background declaration *)
(* when its first fill is marked not visible; when it has an image fill it *)
(* gets the image background with the mapping of its scaleMode and no      *)
(* colour background; otherwise it gets one background declaration, the    *)
(* bound variable when it resolves and else the literal colour; a TEXT     *)
(* node never gets a background declaration.                               *)
(***************************************************************************)
BackgroundProperties ==
  {"background", "background-size", "background-repeat", "background-position"}

HasImageFill(node) ==
  Has(node, "fills") /\ \E k \in 1..Len(node.fills) :
                          Has(node.fills[k], "type") /\ node.fills[k].type = "IMAGE"

FirstImageFill(node) ==
  node.fills[Min({k \in 1..Len(node.fills) :
                    Has(node.fills[k], "type") /\ node.fills[k].type = "IMAGE"})]

ExpectedBackground(node) ==
  IF node.type = "TEXT" \/ FirstFillHidden(node) THEN <<>>
  ELSE IF HasImageFill(node)
    THEN <<"background: url(/img/image.png);">> \o ScaleModeProps(FirstImageFill(node))
  ELSE IF NamesOfId(BoundIdOf(node, "fills")) # {}
    THEN <<"background: " \o getScssVarById(variableIds, BoundIdOf(node, "fills")) \o ";">>
  ELSE IF FirstHasColor(node, "fills")
    THEN <<"background: " \o LiteralColor(node, "fills") \o ";">>
  ELSE <<>>

C24_AsStated ==
  Done =>
    \A i \in 1..Len(resolved) :
      resolved[i].node.type # "INSTANCE" =>
        DeclsAmong(resolved[i].props, BackgroundProperties)
          = ExpectedBackground(resolved[i].node)

(***************************************************************************)
(* Alignment and wrapping of an auto-layout node                           *)
(***************************************************************************)
IsAutoLayout(node) == Has(node, "layoutMode") /\ node.layoutMode \in {"HORIZONTAL", "VERTICAL"}

MappedPrimary == {"MIN", "CENTER", "MAX", "SPACE_BETWEEN"}

MappedCounter == MappedPrimary \cup {"BASELINE"}

MappedWrap == {"WRAP", "NO_WRAP"}

\* the attribute is present and holds a value outside of the mapped set
Unmapped(node, attr, mapped) == Has(node, attr) /\ node[attr] \notin mapped

\* C25: for an auto-layout node whose primaryAxisAlignItems,
\* counterAxisAlignItems or layoutWrap holds a value outside the mapped set,
\* the resolver emits no justify-content, align-items or flex-wrap
\* declaration respectively: a malformed attribute gives no default guess.
C25_AsStated ==
  Done => \A i \in 1..Len(resolved) :
    LET node == resolved[i].node
        props == resolved[i].props
    IN  (IsAutoLayout(node) /\ node.type # "INSTANCE") =>
          /\ Unmapped(node, "primaryAxisAlignItems", MappedPrimary)
                => DeclsAmong(props, {"justify-content"}) = <<>>
          /\ Unmapped(node, "counterAxisAlignItems", MappedCounter)
                => DeclsAmong(props, {"align-items"}) = <<>>
          /\ Unmapped(node, "layoutWrap", MappedWrap)
                => DeclsAmong(props, {"flex-wrap"}) = <<>>

(***************************************************************************)
(* Sizing of a node on the two axes                                        *)
(***************************************************************************)
\* the layout mode of the parent the rule is resolved against, "" when that
\* parent is absent or has no auto-layout
ModeOf(parent) ==
  IF ~IsNull(parent) /\ Has(parent, "layoutMode")
       /\ parent.layoutMode \in {"HORIZONTAL", "VERTICAL"}
    THEN parent.layoutMode ELSE ""

SizingOf(node, axis) ==
  LET attr == IF axis = "HORIZONTAL" THEN "layoutSizingHorizontal" ELSE "layoutSizingVertical"
  IN  IF Has(node, attr) THEN node[attr] ELSE ""

\* the extent of the node along the axis, in thousandths, -1 when unknown
ExtentOf(node, axis) ==
  LET f == IF axis = "HORIZONTAL" THEN "width" ELSE "height"
  IN  IF Has(node, "absoluteBoundingBox") /\ Has(node.absoluteBoundingBox, f)
        THEN node.absoluteBoundingBox[f] ELSE -1

\* the pixel dimension expected along an axis
ExpectedDimension(node, axis) ==
  IF SizingOf(node, axis) = "FIXED" /\ ExtentOf(node, axis) # -1
    THEN <<(IF axis = "HORIZONTAL" THEN "width: " ELSE "height: ")
           \o formatNum(ExtentOf(node, axis)) \o "px;">>
    ELSE <<>>

OtherAxis(axis) == IF axis = "HORIZONTAL" THEN "VERTICAL" ELSE "HORIZONTAL"

\* the property that carries the FILL of an axis under a parent of a mode
FillDeclarationOf(axis, mode) ==
  IF mode = axis THEN {"flex-grow", "flex-shrink"}
  ELSE IF mode = OtherAxis(axis) THEN {"align-self"} ELSE {}

\* C26: under a HORIZONTAL parent FILL horizontal sizing emits
\* flex-grow: 1; flex-shrink: 1 and FILL vertical sizing align-self: stretch,
\* under a VERTICAL parent the two are swapped; FIXED sizing on an axis with
\* known geometry emits the pixel width or height under any parent; without
\* an auto-layout parent FILL emits nothing; no node gets a pixel dimension
\* and a FILL declaration for the same axis.
C26_LayoutSizing ==
  Done => \A i \in 1..Len(resolved) :
    LET node == resolved[i].node
        props == resolved[i].props
        mode == ModeOf(resolved[i].parent)
    IN  /\ DeclsAmong(props, {"width"}) = ExpectedDimension(node, "HORIZONTAL")
        /\ DeclsAmong(props, {"height"}) = ExpectedDimension(node, "VERTICAL")
        /\ DeclsAmong(props, {"flex-grow", "flex-shrink"})
             = (IF mode # "" /\ SizingOf(node, mode) = "FILL"
                  THEN <<"flex-grow: 1; flex-shrink: 1;">> ELSE <<>>)
        /\ DeclsAmong(props, {"align-self"})
             = (IF mode # "" /\ SizingOf(node, OtherAxis(mode)) = "FILL"
                  THEN <<"align-self: stretch;">> ELSE <<>>)
        /\ \A axis \in {"HORIZONTAL", "VERTICAL"} :
             ExpectedDimension(node, axis) # <<>> =>
               DeclsAmong(props, FillDeclarationOf(axis, mode)) = <<>>

\* a node of fixed width that fills its VERTICAL parent's height
C26_Witness ==
  /\ Done
  /\ \E i \in 1..Len(resolved) :
       /\ ModeOf(resolved[i].parent) = "VERTICAL"
       /\ resolved[i].node.type = "FRAME"
       /\ SizingOf(resolved[i].node, "VERTICAL") = "FILL"
       /\ SizingOf(resolved[i].node, "HORIZONTAL") = "FIXED"
       /\ resolved[i].props = <<"flex-grow: 1; flex-shrink: 1;", "width: 60px;">>
       /\ Includes(scss, "&_cell {flex-grow: 1; flex-shrink: 1; width: 60px;}")

(***************************************************************************)
(* The props of a component reference                                      *)
(***************************************************************************)
KeyBeforeHash(key) == UpTo(key, 1, "#")

\* the words of s joined, each capitalised but the first
CamelCase(s) ==
  LET pascal == toPascalCase(s)
  IN  IF pascal = "" THEN "" ELSE LowerChar(CharAt(pascal, 1)) \o SliceFrom(pascal, 1)

\* the name of the prop of a key; withFallback: a key without a letter or
\* digit before its # is named by _ and its character codes
ExpectedPropName(key, withFallback) ==
  IF CamelCase(KeyBeforeHash(key)) = "" /\ withFallback
    THEN "_" \o CodedName(KeyBeforeHash(key))
    ELSE CamelCase(KeyBeforeHash(key))

\* the text of one property's prop: none, or one
ExpectedProp(name, valueObj) ==
  IF ~Has(valueObj, "value") THEN <<>>
  ELSE LET val == valueObj.value
       IN  IF val.t = "string"
             THEN IF toLowerCase(val.v) \in {"true", "false"}
                    THEN <<name \o "={" \o toLowerCase(val.v) \o "}">>
                    ELSE <<name \o "=\"" \o val.v \o "\"">>
           ELSE IF val.t = "number" THEN <<name \o "={" \o NumberToString(val.v) \o "}">>
           ELSE IF val.t = "boolean"
             THEN <<name \o "={" \o (IF val.v THEN "true" ELSE "false") \o "}">>
           ELSE <<>>

RECURSIVE ExpectedProps(_, _)
ExpectedProps(entries, withFallback) ==
  IF entries = <<>> THEN <<>>
  ELSE ExpectedProp(ExpectedPropName(entries[1].key, withFallback), entries[1].valueObj)
       \o ExpectedProps(Tail(entries), withFallback)

PropertiesOf(node) ==
  IF Has(node, "componentProperties") THEN node.componentProperties ELSE <<>>

\* the indentations an element of the markup can have
Indents == {Repeat("  ", d) : d \in 0..3}

\* the markup holds the reference of the instance with exactly these props
\* after the class attribute, in this order, on one line or one per line
IsRenderedWith(node, props) ==
  LET attrs == <<ClassAttr \o ClassOfChild(node) \o "}">> \o props
      name == toPascalCase(node.name)
  IN  \/ Includes(jsx, "<" \o name \o " " \o Join(attrs, " ") \o " />")
      \/ \E indent \in Indents :
           Includes(jsx, indent \o "<" \o name \o "\n"
                         \o Join([k \in 1..Len(attrs) |-> indent \o "  " \o attrs[k]], "\n")
                         \o "\n" \o indent \o "/>")

DeclaredIn(i) ==
  (IF HasPositionedChild(resolved[i].node) /\ DeclsOf(resolved[i].props, "position") = {}
     THEN <<"position: relative;">> ELSE <<>>)
  \o resolved[i].props

\* a text with every line break and the indentation after it read as one
\* space
RECURSIVE Unwrap(_)
Unwrap(s) ==
  IF Occurrences(s, "\n") = {} THEN s
  ELSE LET k == Min(Occurrences(s, "\n"))
       IN  SubSeq(s, 1, k - 1) \o " " \o Unwrap(TrimLeft(SliceFrom(s, k)))

\* the text of the i-th rule in the stylesheet: for the root the text handed
\* to the sheet, when the sheet starts with it
RuleInSheet(i) ==
  IF resolved[i].isRoot
    THEN (IF StartsWith(scss, "." \o resolved[i].cls \o " {" \o resolved[i].rule \o "\n")
            THEN resolved[i].rule ELSE "")
    ELSE BodyInScss(scss, resolved[i].cls)

\* C28: in every emitted rule with at least one declaration the first
\* declaration starts on the same line as the opening brace, whatever its
\* length, and the declarations keep their resolved order across the
\* wrapped lines.
C28_AsStated ==
  Done => \A i \in 1..Len(resolved) :
    DeclaredIn(i) # <<>> =>
      /\ StartsWith(RuleInSheet(i), DeclaredIn(i)[1])
      /\ TrimRight(Unwrap(RuleInSheet(i))) = Join(DeclaredIn(i), " ")

(***************************************************************************)
(* The colour of a text whose first fill is hidden                         *)
(***************************************************************************)
\* the node with its first fill made visible
WithFirstFillShown(node) == [node EXCEPT !.fills[1].visible = TRUE]

\* the declarations of other properties than color
OtherThanColor(props) == SelectSeq(props, LAMBDA d : ~StartsWith(d, "color:"))

\* C29: a TEXT node whose first fill has visible false gets no color
\* declaration at all, whether or not it has a bound fill variable or a
\* literal fill colour, and its other declarations are those it would have
\* with the fill visible.
C29_HiddenFillNoColor ==
  Done => \A i \in 1..Len(resolved) :
    LET node == resolved[i].node
    IN  (node.type = "TEXT" /\ FirstFillHidden(node)) =>
          /\ DeclsAmong(resolved[i].props, {"color"}) = <<>>
          /\ ~Includes(resolved[i].rule, "color:")
          /\ ~Includes(RuleInSheet(i), "color:")
          /\ resolved[i].props
               = OtherThanColor(ResolvedProps(WithFirstFillShown(node),
                                              resolved[i].parentLayoutMode,
                                              resolved[i].parent, variableIds))

\* a styled text with a hidden first fill and a fill variable that resolves
\* was given its font declarations and no colour
C29_Witness ==
  /\ Done
  /\ \E i \in 1..Len(resolved) :
       /\ resolved[i].node.type = "TEXT"
       /\ FirstFillHidden(resolved[i].node)
       /\ NamesOfId(BoundIdOf(resolved[i].node, "fills")) # {}
       /\ FirstHasColor(resolved[i].node, "fills")
       /\ resolved[i].props
            = <<"font-weight: var(--weight-bold);", "font-family: var(--family-head);",
                "font-size: var(--size-lg);", "text-align: center;", "line-height: 120%;">>
       /\ Includes(scss, "&_label {font-weight: var(--weight-bold);")

(***************************************************************************)
(* The parent a rule is resolved against                                   *)
(***************************************************************************)
\* the node of the document that has the node among its children
ParentInDocument(node) ==
  LET holders == {p \in {argDocument} \cup Descendants(argDocument) :
                    \E k \in 1..Len(ChildrenOf(p)) : p.children[k].id = node.id}
  IN  IF holders = {} THEN NullNode ELSE CHOOSE p \in holders : TRUE

OffsetsAndFlexItem ==
  {"left", "right", "top", "bottom", "flex-grow", "flex-shrink", "align-self"}

\* the text of a rule resolved against a parent, as a nested rule holds it
ResolvedAgainst(node, parent) ==
  IndentNewlines(WithRelative(node, nodeToScss(node, ParentLayoutMode(parent), parent,
                                               variableIds)))

\* C30: the root rule is resolved with no parent context even when the root
\* has a parent in the document: it never holds left, right, top or bottom
\* (also when the root is fixed or absolute), never flex-grow, flex-shrink
\* or align-self, and gets width and height only from FIXED sizing; the
\* rule of every other node is resolved against its parent in the document.
C30_RootWithoutParent ==
  Done => \A i \in 1..Len(resolved) :
    LET node == resolved[i].node
        props == resolved[i].props
    IN  IF node.id = argNode.id
          THEN /\ RuleInSheet(i) = resolved[i].rule
               /\ resolved[i].rule = WithRelative(node, nodeToScss(node, "", NullNode, variableIds))
               /\ PropertyNamesIn(RuleInSheet(i)) \cap OffsetsAndFlexItem = {}
               /\ DeclsAmong(props, OffsetsAndFlexItem) = <<>>
               /\ DeclsAmong(props, {"width"}) = ExpectedDimension(node, "HORIZONTAL")
               /\ DeclsAmong(props, {"height"}) = ExpectedDimension(node, "VERTICAL")
          ELSE /\ ~IsNull(ParentInDocument(node))
               /\ resolved[i].parent = ParentInDocument(node)
               /\ TrimRight(RuleInSheet(i))
                    = TrimRight(ResolvedAgainst(node, ParentInDocument(node)))

\* a fixed root with constraints and geometry, inside a HORIZONTAL screen
\* with geometry, was given position: fixed alone, and its child was
\* resolved against the root
C30_Witness ==
  /\ Done
  /\ ParentLayoutMode(ParentInDocument(argNode)) = "HORIZONTAL"
  /\ Has(ParentInDocument(argNode), "absoluteBoundingBox")
  /\ IsPositioned(argNode)
  /\ Has(argNode, "constraints") /\ Has(argNode, "absoluteBoundingBox")
  /\ Len(resolved) = 2
  /\ \E i, j \in 1..2 :
       /\ resolved[i].node.id = argNode.id
       /\ resolved[i].props = <<"position: fixed;">>
       /\ ~IsNull(resolved[j].parent)
       /\ resolved[j].parent.id = argNode.id
  /\ scss = ".card {position: fixed;\n  &_title {color: #000000;}\n}"

====
